---- MODULE Spec2Model ----
(***************************************************************************)
(* Model of the GPU task dispatcher (comfyui-fastapi): the consumer loop,  *)
(* the admission gate, the processor registry, the ComfyUI workflow        *)
(* processor with its engine client, the status callbacks, and the Redis   *)
(* three-lane priority queue.                                              *)
(*                                                                         *)
(* Texts (workflow names, task ids, URLs, messages) are sequences of       *)
(* tokens; substring search, prefix tests and glob matching work on the    *)
(* token sequences.  Python's None is the one-token text None.             *)
(***************************************************************************)
EXTENDS Integers, Sequences, FiniteSets, TLC

(***************************************************************************)
(* Bounds of the model.                                                    *)
(***************************************************************************)
MaxJobs == 2
MaxRecv == 2
MaxResults == 2
MaxPush == 3
MaxNodes == 2

(***************************************************************************)
(* Texts.                                                                  *)
(***************************************************************************)
None == <<"<None>">>
Empty == <<>>

\* Python truthiness of an optional text: None and "" are falsy.
Truthy(x) == x /= None /\ x /= Empty

\* a or b
Or(a, b) == IF Truthy(a) THEN a ELSE b

\* s.startswith(p)
StartsWith(s, p) == Len(s) >= Len(p) /\ SubSeq(s, 1, Len(p)) = p

\* sub in s (substring search)
Contains(s, sub) ==
  \E i \in 1..(Len(s) - Len(sub) + 1) : SubSeq(s, i, i + Len(sub) - 1) = sub

\* str.lower() on one token: the capitalised tokens of the model's messages.
LowerTok(t) ==
  CASE t = "Connection" -> "connection"
    [] t = "WebSocket" -> "websocket"
    [] t = "Timeout" -> "timeout"
    [] OTHER -> t

Lower(s) == [i \in 1..Len(s) |-> LowerTok(s[i])]

Range(s) == { s[i] : i \in 1..Len(s) }

(***************************************************************************)
(* Workflow names, task ids and URLs of the model.                         *)
(***************************************************************************)
WfComfyBasic == <<"comfyui_", "basic">>
WfFaceswap == <<"faceswap">>
WfTest == <<"test_workflow">>
WfDefault == <<"default">>

IdT1 == <<"t1">>
IdTest == <<"test_task_", "1">>

\* A URL is scheme, host, basename without extension, extension.
UrlA == <<"https://", "x.test/", "a", ".png">>
UrlTimeout == <<"https://", "x.test/", "timeout", ".mp3">>

RedisQueue == <<"redis_queue">>
ApiBase == <<"http://", "producer.test/api">>

(***************************************************************************)
(* utils/workflow_filter.py                                                *)
(***************************************************************************)
\* fnmatch.fnmatch(name, pattern): the token "*" matches any run of tokens.
RECURSIVE fnmatch(_, _)
fnmatch(name, pattern) ==
  IF pattern = <<>> THEN name = <<>>
  ELSE IF Head(pattern) = "*"
       THEN fnmatch(name, Tail(pattern))
            \/ (name /= <<>> /\ fnmatch(Tail(name), pattern))
       ELSE name /= <<>> /\ Head(name) = Head(pattern)
            /\ fnmatch(Tail(name), Tail(pattern))

is_workflow_allowed(allowed, workflow_name) ==
  LET wn == IF Truthy(workflow_name) THEN workflow_name ELSE WfDefault
  IN  IF allowed = <<>> \/ (\E i \in 1..Len(allowed) : allowed[i] = <<"*">>)
      THEN TRUE
      ELSE \E i \in 1..Len(allowed) : fnmatch(wn, allowed[i])

\* The allow-lists a worker may be configured with (settings.ALLOWED_WORKFLOWS).
AllowLists ==
  { << <<"*">> >>,
    << <<"comfyui_", "*">> >>,
    << <<"faceswap">>, <<"test_workflow">> >> }

(***************************************************************************)
(* consumer/processor_registry.py                                          *)
(***************************************************************************)
BuiltinComfy ==
  { <<"basic_generation">>, <<"text_to_image">>, <<"image_to_image">>,
    <<"inpainting">> }

_determine_processor_type(workflow_name) ==
  IF ~Truthy(workflow_name) THEN "comfyui"
  ELSE IF workflow_name = WfFaceswap THEN "facefusion"
  ELSE IF StartsWith(workflow_name, <<"comfyui_">>) \/ workflow_name \in BuiltinComfy
       THEN "comfyui"
  ELSE "comfyui"

\* get_processor: the registered processor type for the name (both are registered).
get_processor(workflow_name) == _determine_processor_type(workflow_name)

(***************************************************************************)
(* Tasks.  wf_json is an ordered mapping: a sequence of entries, each a    *)
(* graph node (a dict with class_type and inputs) or a plain value.        *)
(***************************************************************************)
Node(k, ct, inp) ==
  [key |-> k, isdict |-> TRUE, class_type |-> ct, inputs |-> inp, val |-> Empty]

Leaf(k, v) ==
  [key |-> k, isdict |-> FALSE, class_type |-> "", inputs |-> <<>>, val |-> v]

SaveNode == Node("9", "SaveImage", [filename_prefix |-> <<"out">>])

\* The LoRA service before its cache is built, and a catalog of the engine.
EmptyCache == <<>>
EngineLoras == << <<"loras/", "x.safetensors">> >>

GEmpty == <<>>
GPlain == << SaveNode >>
GFull ==
  << Node("1", "LoadImage", [image |-> UrlA]),
     Node("2", "LoadAudio", [audio |-> UrlTimeout]),
     Node("3", "LoraLoader", [lora_name |-> <<"x.safetensors">>]), SaveNode >>
GFace ==
  << Leaf("source_url", <<"https://", "x.test/", "s.jpg">>),
     Leaf("target_url", <<"https://", "x.test/", "t.mp4">>) >>
GFaceBad == << Leaf("source_url", <<"https://", "x.test/", "s.jpg">>) >>

Graphs == {GEmpty, GPlain, GFull}

\* A producer-side task: absent keys hold None.
RawTask(id, wf, wfn, wfN, g) ==
  [taskId |-> id, workflow |-> wf, workflow_name |-> wfn, workflowName |-> wfN,
   wf_json |-> g, callbackUrl |-> None, source_channel |-> None]

\* A per-job callback URL (the producer's callbackUrl).
JobCallbackUrl == <<"https://", "job.test", "/callback">>

\* The tasks the producers of the model hand out.
RawTasks ==
  { [RawTask(IdT1, WfFaceswap, WfFaceswap, None, GFace)
       EXCEPT !.callbackUrl = JobCallbackUrl] } \cup
  { RawTask(IdT1, WfComfyBasic, WfComfyBasic, None, g) : g \in Graphs }
  \cup { RawTask(IdT1, WfFaceswap, WfFaceswap, None, g) : g \in {GFace, GFaceBad} }
  \cup { RawTask(IdTest, WfComfyBasic, WfComfyBasic, None, GPlain),
         RawTask(IdT1, WfTest, WfTest, None, GPlain),
         RawTask(None, WfComfyBasic, WfComfyBasic, None, GPlain),
         RawTask(IdT1, None, None, WfComfyBasic, GPlain) }

NoTask == RawTask(None, None, None, None, GEmpty)

(***************************************************************************)
(* consumer/task_schema.py                                                 *)
(***************************************************************************)
normalize_queue_task(raw_task) ==
  LET workflow ==
        Or(raw_task.workflowName,
           Or(raw_task.workflow, Or(raw_task.workflow_name, WfDefault)))
  IN  [taskId |-> raw_task.taskId,
       workflow |-> workflow,
       workflow_name |-> None,
       workflowName |-> workflow,
       wf_json |-> raw_task.wf_json,
       callbackUrl |-> IF Truthy(raw_task.callbackUrl) THEN raw_task.callbackUrl ELSE None,
       source_channel |-> None]

(***************************************************************************)
(* State.                                                                  *)
(***************************************************************************)
VARIABLES
  consumer_mode,       \* TaskConsumer.consumer_mode: "http" or "redis_queue"
  TASK_CALLBACK_URL,   \* settings.TASK_CALLBACK_URL: a text, Empty when unset
  allowed_workflows,   \* WorkflowFilter.allowed_workflows
  pc,                  \* position of the consumer loop / process_task / processor
  task,                \* the task in flight
  jobs,                \* number of tasks fetched so far
  events,              \* status callbacks sent for the task in flight, in order
  requests,            \* kinds of request made to the engine, the download hosts
                       \* and the storage for the task in flight
  processor,           \* processor invoked for the task in flight, "none" if none
  dispatch,            \* how process_task went: "", "noid", "filtered", "test", "invoked"
  health,              \* what check_server_health returned at the health gate
                       \* for the task in flight: "" (not asked), "up", "down"
  outcome,             \* what _execute_comfyui_task returned or raised
  ret,                 \* what processor.process returned: -1 for None, else len(results)
  wf,                  \* the graph as pre-processing has rewritten it so far
  client_cache,        \* ComfyUIProcessor.client_cache: cache key -> client
  lora_cache_loaded,   \* LoraService._cache_loaded
  lora_cache,          \* LoraService._lora_cache: file name -> full path
  engine_loras,        \* the LoRA catalog of the engine (object_info/LoraLoader)
  ws_msg,              \* wait_for_completion's msg: the last message recv returned
  gets,                \* the requests.get calls of download_images_batch: URL and answer
  download_results,    \* download_images_batch's results: URL -> local file name
  dl,                  \* download_images_batch's position: which URL, which attempt
  task_queue,          \* TaskManager.task_queue: the ids of the queued tasks
  tasks_storage,       \* TaskManager.tasks_storage: id -> workflow and status
  handouts,            \* the <<task id, worker>> pairs of the answers of the fetch route
  in_hand,             \* the task each HTTP worker is processing
  task_start_times,    \* ResultCallback._task_start_times (its keys)
  recvs,               \* ws.recv() calls made by wait_for_completion for this prompt
  clock,               \* seconds since wait_for_completion took start_time
  last_progress_time,  \* wait_for_completion's last_progress_time
  fetch_result,        \* what the last fetch_task call came to: "" before the
                       \* first, "task", or why it yielded no job
  idle_ticks,          \* alternates at every fetch_task call that yields no job
  callbacks_ok,        \* whether the callback endpoint answers 2xx (else every
                       \* status callback fails: an error answer or no answer)
  callback_time,       \* seconds spent so far inside status callbacks during the wait
  history_outputs,     \* the outputs of the history get_workflow_results read
  upload_tasks,        \* the Upload Tasks harvested for the task in flight
  output_urls,         \* get_workflow_results' output_urls, in completion order
  lanes,               \* the three Redis lists: lane name -> list, leftmost first
  qpc,                 \* per consumer: 0 outside fetch_task, else the index in
                       \* PRIORITY_QUEUES of the lane its loop pops next
  found_empty,         \* per consumer: lanes whose rpop came back empty in this call
  returned,            \* jobs fetch_task has returned, in order, with the lane,
                       \* the consumer and the lanes found empty in that call
  pushed,              \* lane of every job pushed so far; a job is its index here
  first_fetch_at,      \* Len(pushed) when the first fetch_task call began, -1 before
  redis_lists,         \* the producer's Redis lists: key -> task ids, leftmost first
  redis_locks,         \* the lock:task:<id> keys that exist (their task ids)
  redis_tasks,         \* the task:<id> hashes: task id -> status and workflow
  callers              \* per caller of get_next_task: where the call stands, its
                       \* locals, and the task id it was handed and still works on

vars ==
  << consumer_mode, TASK_CALLBACK_URL, allowed_workflows, pc, task, jobs, events,
     requests, processor, dispatch, health, outcome, ret, wf, client_cache,
     lora_cache_loaded, task_start_times, recvs, clock, last_progress_time,
     history_outputs, upload_tasks, output_urls, callbacks_ok, callback_time,
     fetch_result, idle_ticks, lora_cache, engine_loras, ws_msg,
     gets, download_results, dl,
     lanes, qpc, found_empty, returned, pushed, first_fetch_at,
     redis_lists, redis_locks, redis_tasks, callers,
     task_queue, tasks_storage, handouts, in_hand >>

http_vars == << task_queue, tasks_storage, handouts, in_hand >>

producer_vars ==
  << redis_lists, redis_locks, redis_tasks, callers, task_queue, tasks_storage,
     handouts, in_hand >>

pipeline_vars ==
  << consumer_mode, TASK_CALLBACK_URL, allowed_workflows, pc, task, jobs, events,
     requests, processor, dispatch, health, outcome, ret, wf, client_cache,
     lora_cache_loaded, task_start_times, recvs, clock, last_progress_time,
     history_outputs, upload_tasks, output_urls, callbacks_ok, callback_time,
     fetch_result, idle_ticks, lora_cache, engine_loras, ws_msg,
     gets, download_results, dl >>

download_vars == << gets, download_results, dl >>

\* What only _preprocess_workflow and the services it calls write.
lora_vars == << lora_cache, engine_loras, gets, download_results, dl >>

wait_vars == << ws_msg >>

loop_vars == << fetch_result, idle_ticks >>

callback_vars == << callbacks_ok, callback_time >>

harvest_vars == << history_outputs, upload_tasks, output_urls >>

queue_vars == << lanes, qpc, found_empty, returned, pushed, first_fetch_at >>

(***************************************************************************)
(* Status callbacks of the task in flight, sent by the processor or by the *)
(* dispatcher's ResultCallback.                                            *)
(***************************************************************************)
Cb(by, status, msg, out, n) ==
  [by |-> by, status |-> status, msg |-> msg, out |-> out, n |-> n]

\* A callback as sent: the URL of the POST and its payload.
Post(url, cb) ==
  [url |-> url, by |-> cb.by, status |-> cb.status, msg |-> cb.msg, out |-> cb.out,
   n |-> cb.n]

Payload(e) == Cb(e.by, e.status, e.msg, e.out, e.n)

\* The path both processors append to the base they resolved.
UpdatePath == <<"/api/comm/task/update">>

\* settings.task_api_url: os.getenv('TASK_API_URL', '').
task_api_url == Empty

MsgEmptyWf == <<"workflow JSON is empty">>
MsgNoResults == <<"No results generated.">>
MsgEmptyResult == <<"processor returned an empty result">>

\* ComfyUIProcessor._update_task_status: the base URL the callback goes to,
\* None when the callback is skipped.
update_url(source_channel) ==
  IF Truthy(source_channel)
     /\ (StartsWith(source_channel, <<"http://">>)
         \/ StartsWith(source_channel, <<"https://">>))
  THEN source_channel
  ELSE IF source_channel = RedisQueue
       THEN (IF Truthy(TASK_CALLBACK_URL) THEN TASK_CALLBACK_URL ELSE None)
       ELSE (IF Truthy(task_api_url) THEN task_api_url ELSE None)

\* ComfyUIProcessor._update_task_status: the events after the call.
_update_task_status(ev, status, msg, out, n, source_channel) ==
  IF update_url(source_channel) = None THEN ev
  ELSE Append(ev, Post(update_url(source_channel) \o UpdatePath,
                       Cb("processor", status, msg, out, n)))

\* ResultCallback._call_api: skipped when neither the task's callback_url
\* argument nor the configured TASK_CALLBACK_URL is set.
_call_api(ev, status, msg, out, n, callback_url) ==
  IF ~Truthy(Or(callback_url, TASK_CALLBACK_URL)) THEN ev
  ELSE Append(ev, Post(Or(callback_url, TASK_CALLBACK_URL),
                       Cb("dispatcher", status, msg, out, n)))

\* ResultCallback.send_processing (process_task passes no callback_url).
send_processing(ev) == _call_api(ev, "PROCESSING", Empty, FALSE, 0, None)

\* ResultCallback._extract_urls + send_callback: n result URLs, -1 for a
\* result that yields no URL list (None, or a dict without urls).
send_callback(ev, status, n, error) ==
  _call_api(ev, status, error, n > 0, IF n > 0 THEN n ELSE 0, None)

send_success(ev, n) == send_callback(ev, "COMPLETED", n, Empty)

send_failure(ev, error) == send_callback(ev, "FAILED", -1, error)

(***************************************************************************)
(* Outcomes of _execute_comfyui_task and the exceptions of the model.      *)
(***************************************************************************)
Outcome(kind, n, msg) == [kind |-> kind, n |-> n, msg |-> msg]

NoOutcome == Outcome("none", 0, Empty)
Unavailable == Outcome("unavailable", 0, Empty)

ExcNotAvailable == <<"ComfyUI server at ", "127.0.0.1:3001", " is ", "not available">>
ExcHandshake == <<"Handshake status 404 Not Found">>
ExcConnRefused == <<"[Errno 111] ", "Connection", " ", "refused">>
ExcHttp400 == <<"HTTP Error 400: Bad Request">>
ExcHttp500 == <<"HTTP Error 500: Internal Server Error">>
ExcConnReset == <<"[Errno 104] ", "Connection", " reset by peer">>
Mut_ExcTimedOut == <<"Workflow execution ", "timeout", " after ", "151.00", " seconds.">>

ExcTimedOut == <<"Workflow execution timed out after ", "151.00", " seconds.">>

\* The substrings _execute_comfyui_task takes for a connection error.
ConnectionKeywords ==
  { <<"connection">>, <<"websocket">>, <<"refused">>, <<"timeout">>,
    <<"not available">> }

is_connection_error(msg) ==
  \E kw \in ConnectionKeywords : Contains(Lower(msg), kw)

\* ComfyUIProcessor._get_comfyui_client: the cache key of the task's client.
cache_key(t) ==
  LET workflow_name == Or(t.workflowName, t.workflow_name)
  IN  IF Truthy(workflow_name) THEN workflow_name ELSE WfDefault

\* download_images_batch before its first URL: index of the URL in hand and
\* the attempt download_image is at.
BatchStart == [i |-> 1, attempt |-> 0]

\* The messages of the engine's WebSocket as wait_for_completion reads them:
\* data["type"] and, of data["data"], prompt_id and node.
WsMessage(type, prompt_id, node) == [type |-> type, prompt_id |-> prompt_id, node |-> node]

NoMsg == WsMessage("", None, None)

\* The prompt_id queue_prompt returned for the job, and the one of an earlier
\* job whose messages are still on a reused connection.
PromptId == <<"p-2">>
OtherPromptId == <<"p-1">>

Messages ==
  { WsMessage("executing", PromptId, None),
    WsMessage("executing", PromptId, <<"3">>),
    WsMessage("executing", OtherPromptId, None),
    WsMessage("progress", None, None),
    WsMessage("status", None, None) }

Mut_ends_wait(m, prompt_id) == m.type = "executing" /\ ~Truthy(m.node)

\* wait_for_completion lines 225-236: the message on which the loop breaks.
ends_wait(m, prompt_id) ==
  /\ m.type = "executing"
  /\ m.prompt_id = prompt_id
  /\ ~Truthy(m.node)

\* wait_for_completion lines 225-264: the branch a parsed message takes.
handling(m, prompt_id) ==
  IF ends_wait(m, prompt_id) THEN "terminal"
  ELSE IF m.type = "progress" THEN "progress"
  ELSE "other"

\* A ComfyUI client: its ws_connected flag, and whether the socket it holds
\* can still deliver messages.
NewClient == [ws_connected |-> FALSE, ws_open |-> FALSE]

\* client_cache with the task's client created when missing.
with_client(cache, t) ==
  IF cache_key(t) \in DOMAIN cache THEN cache
  ELSE (cache_key(t) :> NewClient) @@ cache

evict(cache, key) == [x \in (DOMAIN cache) \ {key} |-> cache[x]]

set_ws(cache, key, b) ==
  IF key \in DOMAIN cache THEN [cache EXCEPT ![key].ws_connected = b] ELSE cache

set_open(cache, key, b) ==
  IF key \in DOMAIN cache THEN [cache EXCEPT ![key].ws_open = b] ELSE cache

(***************************************************************************)
(* Initial state: a freshly constructed TaskConsumer, in either mode, with *)
(* or without a configured TASK_CALLBACK_URL, under one of the allow-lists.*)
(***************************************************************************)
CallbackBase == <<"https://", "z-image.test">>

(***************************************************************************)
(* consumer/queue_consumer.py: the lanes and the Redis list commands.      *)
(***************************************************************************)
Mut_PRIORITY_QUEUES == <<"gpu:tasks:guest", "gpu:tasks:normal", "gpu:tasks:vip">>

PRIORITY_QUEUES == <<"gpu:tasks:vip", "gpu:tasks:normal", "gpu:tasks:guest">>

Consumers == {"c1", "c2"}

Priorities == {"vip", "normal", "guest", "gold"}

\* push_task's queue_map.get(priority, "gpu:tasks:normal")
queue_map(priority) ==
  CASE priority = "vip" -> "gpu:tasks:vip"
    [] priority = "normal" -> "gpu:tasks:normal"
    [] priority = "guest" -> "gpu:tasks:guest"
    [] OTHER -> "gpu:tasks:normal"

Mut_lpush(list, x) == Append(list, x)

\* LPUSH: the element becomes the leftmost of the list.
lpush(list, x) == <<x>> \o list

\* RPOP: the rightmost element of a non-empty list ...
rpop_value(list) == list[Len(list)]

Mut_rpop_rest(list) == list

\* ... and the list it leaves.
rpop_rest(list) == SubSeq(list, 1, Len(list) - 1)

EmptyLanes == [q \in Range(PRIORITY_QUEUES) |-> <<>>]

(***************************************************************************)
(* core/redis_task_manager.py: the producer's task store.                  *)
(***************************************************************************)
MaxTasks == 2

\* The workflows tasks are created for.
ProducerWorkflows == {"basic_generation", "text_to_image"}

\* The callers of get_next_task (the workers polling the producer).
Callers == {"w1", "w2"}

NoId == 0

\* The list keys _save_task_to_redis pushes to and get_next_task pops from.
pending == "queue:pending"

pending_of(workflow_name) == "queue:pending:" \o workflow_name

ListKeys == {pending} \cup { pending_of(w) : w \in ProducerWorkflows }

\* A caller outside get_next_task that holds no task; the locals of a call
\* are gone when it returns.
(***************************************************************************)
(* core/task_manager.py behind api/routes/tasks.py: the in-memory producer *)
(* of HTTP mode and the workers that poll it.                              *)
(***************************************************************************)
\* TaskManager._initialize_queue: range(3).
initial_tasks == 3

\* How many tasks get_next_task may create on an empty queue.
MaxCreated == 1

\* create_task's default workflow name.
WfBasicGeneration == <<"basic_generation">>

HttpTask(workflow, status) == [workflow |-> workflow, status |-> status]

\* The workers polling the producer and the allow-list of each.
HttpWorkers == {"h1", "h2", "h3"}

HttpAllowed(w) ==
  CASE w = "h1" -> << <<"text_to_image">> >>
    [] w = "h2" -> << <<"basic_", "*">> >>
    [] OTHER -> << <<"*">> >>

IdleCaller ==
  [pc |-> "idle", workflow_names |-> <<>>, queues |-> <<>>, queue_key |-> "",
   task_id |-> NoId, holds |-> NoId]

ProducerIdle ==
  /\ redis_lists = [k \in ListKeys |-> <<>>]
  /\ redis_locks = {}
  /\ redis_tasks = <<>>
  /\ callers = [c \in Callers |-> IdleCaller]
  /\ task_queue = [i \in 1..initial_tasks |-> i]
  /\ tasks_storage = [i \in 1..initial_tasks |-> HttpTask(WfBasicGeneration, "PENDING")]
  /\ handouts = {}
  /\ in_hand = [w \in HttpWorkers |-> NoId]

QueueIdle ==
  /\ ProducerIdle
  /\ lanes = EmptyLanes
  /\ qpc = [c \in Consumers |-> 0]
  /\ found_empty = [c \in Consumers |-> {}]
  /\ returned = <<>>
  /\ pushed = <<>>
  /\ first_fetch_at = -1

\* The consumer before its first fetch.
ConsumerIdle ==
  /\ pc = "fetch"
  /\ task = NoTask
  /\ jobs = 0
  /\ events = <<>>
  /\ requests = {}
  /\ processor = "none"
  /\ dispatch = ""
  /\ health = ""
  /\ outcome = NoOutcome
  /\ ret = -1
  /\ wf = GEmpty
  /\ client_cache = <<>>
  /\ lora_cache_loaded = FALSE
  /\ lora_cache = EmptyCache
  /\ ws_msg = NoMsg
  /\ gets = <<>>
  /\ download_results = <<>>
  /\ dl = BatchStart
  /\ engine_loras = EngineLoras
  /\ task_start_times = {}
  /\ recvs = 0
  /\ clock = 0
  /\ last_progress_time = 0
  /\ history_outputs = <<>>
  /\ upload_tasks = <<>>
  /\ output_urls = <<>>
  /\ fetch_result = ""
  /\ idle_ticks = 0
  /\ callback_time = 0
  /\ QueueIdle

Init ==
  /\ consumer_mode \in {"http", "redis_queue"}
  /\ TASK_CALLBACK_URL \in {Empty, CallbackBase}
  /\ allowed_workflows \in AllowLists
  /\ callbacks_ok = TRUE
  /\ ConsumerIdle

(***************************************************************************)
(* consumer/task_consumer.py                                               *)
(***************************************************************************)
Mut_at_fetch_task(p) == TRUE

\* TaskConsumer.start lines 265-271: the loop awaits process_task, so it is
\* at fetch_task only when no process_task call is under way.
at_fetch_task(p) == p = "fetch"

\* TaskConsumer.start + fetch_task: one tick of the loop that yields a task.
\* HTTP mode keeps only data with a taskId and tags it with the producer's
\* base URL; Redis mode normalises the popped task and tags it redis_queue.
FetchTask ==
  /\ at_fetch_task(pc)
  /\ jobs < MaxJobs
  /\ \E raw \in RawTasks :
       IF consumer_mode = "redis_queue"
       THEN task' = [normalize_queue_task(raw) EXCEPT !.source_channel = RedisQueue]
       ELSE /\ Truthy(raw.taskId)
            /\ task' = [raw EXCEPT !.source_channel = ApiBase]
  /\ jobs' = jobs + 1
  /\ pc' = "process_task"
  /\ events' = <<>>
  /\ requests' = {}
  /\ processor' = "none"
  /\ dispatch' = ""
  /\ health' = ""
  /\ outcome' = NoOutcome
  /\ ret' = -1
  /\ wf' = GEmpty
  /\ recvs' = 0
  /\ clock' = 0
  /\ last_progress_time' = 0
  /\ history_outputs' = <<>>
  /\ upload_tasks' = <<>>
  /\ output_urls' = <<>>
  /\ UNCHANGED queue_vars
  /\ UNCHANGED producer_vars
  /\ fetch_result' = "task"
  /\ idle_ticks' = 0
  /\ UNCHANGED lora_vars
  /\ UNCHANGED wait_vars
  /\ UNCHANGED callback_vars
  /\ UNCHANGED << consumer_mode, TASK_CALLBACK_URL, allowed_workflows, client_cache,
                  lora_cache_loaded, task_start_times >>

\* process_task line 163: the per-job callback URL it reads.
callback_url(t) == t.callbackUrl

\* process_task's reading of the workflow name.
task_workflow_name(t) == Or(t.workflow_name, IF t.workflow = None THEN Empty ELSE t.workflow)

is_test_task(t) ==
  StartsWith(t.taskId, <<"test_task_">>) \/ task_workflow_name(t) = WfTest

Mut_admitted(t) == Truthy(t.taskId)

\* ResultCallback.send_callback line 215, _task_start_times.pop(task_id, ...):
\* the map without the entry of the task (the variant keeps the entry).
Mut_pop(times, task_id) == times

pop(times, task_id) == times \ {task_id}

\* process_task lines 165-173: the task has an id and the filter allows it.
admitted(t) ==
  Truthy(t.taskId) /\ is_workflow_allowed(allowed_workflows, task_workflow_name(t))

\* TaskConsumer.process_task, from its entry to the hand-over to the processor
\* (or to its early return).
ProcessTask ==
  /\ pc = "process_task"
  /\ IF ~admitted(task)
     THEN /\ dispatch' = (IF Truthy(task.taskId) THEN "filtered" ELSE "noid")
          /\ pc' = "fetch"
          /\ UNCHANGED << events, processor, task_start_times >>
     ELSE IF is_test_task(task)
     THEN /\ dispatch' = "test"
          /\ pc' = "fetch"
          /\ events' = (IF consumer_mode = "redis_queue"
                        THEN send_success(events, -1) ELSE events)
          /\ task_start_times' = (IF consumer_mode = "redis_queue"
                                  THEN pop(task_start_times, task.taskId)
                                  ELSE task_start_times)
          /\ UNCHANGED processor
     ELSE /\ dispatch' = "invoked"
          /\ events' = (IF consumer_mode = "redis_queue"
                        THEN send_processing(events) ELSE events)
          /\ task_start_times' = (IF consumer_mode = "redis_queue"
                                  THEN task_start_times \cup {task.taskId}
                                  ELSE task_start_times)
          /\ processor' = get_processor(task_workflow_name(task))
          /\ pc' = (IF get_processor(task_workflow_name(task)) = "facefusion"
                    THEN "facefusion_process" ELSE "comfyui_process")
  /\ UNCHANGED queue_vars
  /\ UNCHANGED producer_vars
  /\ UNCHANGED loop_vars
  /\ UNCHANGED lora_vars
  /\ UNCHANGED wait_vars
  /\ UNCHANGED callback_vars
  /\ UNCHANGED harvest_vars
  /\ UNCHANGED health
  /\ UNCHANGED << consumer_mode, TASK_CALLBACK_URL, allowed_workflows, task, jobs,
                  requests, outcome, ret, wf, client_cache, lora_cache_loaded, recvs,
                  clock, last_progress_time >>

(***************************************************************************)
(* services/lora_service.py, services/input_node_service.py,               *)
(* services/image_service.py: what _preprocess_workflow uses.              *)
(***************************************************************************)
LORA_NODE_TYPES == {"LoraLoader", "LoraLoaderModelOnly"}

\* os.path.basename of a path whose directories are the tokens ending in "/".
DirTokens == {"loras/", "sd15/", "sdxl/"}

basename(path) ==
  LET dirs == { i \in 1..Len(path) : path[i] \in DirTokens }
      last == IF dirs = {} THEN 0 ELSE CHOOSE i \in dirs : \A j \in dirs : j <= i
  IN  SubSeq(path, last + 1, Len(path))

\* _build_lora_cache lines 58-60: of the paths with one file name the cache
\* keeps the first.
first_with(lora_list, filename) ==
  CHOOSE i \in 1..Len(lora_list) :
    /\ basename(lora_list[i]) = filename
    /\ \A j \in 1..(i - 1) : basename(lora_list[j]) /= filename

\* LoraService._build_lora_cache from the list _get_comfyui_loras returned.
_build_lora_cache(lora_list) ==
  [filename \in { basename(lora_list[i]) : i \in 1..Len(lora_list) } |->
     lora_list[first_with(lora_list, filename)]]

cache_values(cache) == { cache[filename] : filename \in DOMAIN cache }

\* LoraService.fix_lora_path with the cache built.
fix_lora_path(lora_name, cache) ==
  IF ~Truthy(lora_name) THEN lora_name
  ELSE IF lora_name \in cache_values(cache) THEN lora_name
  ELSE IF basename(lora_name) \in DOMAIN cache THEN cache[basename(lora_name)]
  ELSE lora_name

is_lora_node(node) ==
  /\ node.isdict
  /\ node.class_type \in LORA_NODE_TYPES
  /\ "lora_name" \in DOMAIN node.inputs
  /\ Truthy(node.inputs.lora_name)

\* LoraService.fix_workflow_loras with the cache built.
fix_workflow_loras(g, cache) ==
  [i \in 1..Len(g) |->
     IF is_lora_node(g[i])
     THEN [g[i] EXCEPT !.inputs.lora_name = fix_lora_path(@, cache)]
     ELSE g[i]]

\* fix_workflow_loras asks for the catalog when a LoRA node names a model.
needs_lora_catalog(g) ==
  \E i \in 1..Len(g) :
    /\ g[i].isdict
    /\ g[i].class_type \in LORA_NODE_TYPES
    /\ "lora_name" \in DOMAIN g[i].inputs
    /\ Truthy(g[i].inputs.lora_name)

\* MediaService.is_remote_url
is_remote_url(u) == StartsWith(u, <<"http://">>) \/ StartsWith(u, <<"https://">>)

\* The input field a handler reads: LoadImage.image, LoadAudio.audio.
input_field(node) ==
  IF node.class_type = "LoadImage" THEN "image"
  ELSE IF node.class_type = "LoadAudio" THEN "audio"
  ELSE ""

has_remote_input(node) ==
  /\ node.isdict
  /\ input_field(node) /= ""
  /\ input_field(node) \in DOMAIN node.inputs
  /\ Truthy(node.inputs[input_field(node)])
  /\ is_remote_url(node.inputs[input_field(node)])

\* InputNodeService.collect_remote_urls: the URLs in node order.
RECURSIVE collect_remote_urls(_)
collect_remote_urls(g) ==
  IF g = <<>> THEN <<>>
  ELSE (IF has_remote_input(Head(g))
        THEN << Head(g).inputs[input_field(Head(g))] >> ELSE <<>>)
       \o collect_remote_urls(Tail(g))

\* ImageService.download_image: <name>_<millisecond timestamp><ext>.
local_filename(url) == << url[3], "_", "1700000000000", url[4] >>

\* A rewrite that stops at the first node of each URL.
Mut_update_workflow_paths(g, downloaded) ==
  [i \in 1..Len(g) |->
     IF /\ has_remote_input(g[i]) /\ g[i].inputs[input_field(g[i])] \in downloaded
        /\ \A j \in 1..(i - 1) :
              ~(has_remote_input(g[j])
                /\ g[j].inputs[input_field(g[j])] = g[i].inputs[input_field(g[i])])
     THEN [g[i] EXCEPT !.inputs[input_field(g[i])] =
                         local_filename(g[i].inputs[input_field(g[i])])]
     ELSE g[i]]

\* InputNodeService.update_workflow_paths: every node holding a downloaded URL
\* gets the local filename.
update_workflow_paths(g, downloaded) ==
  [i \in 1..Len(g) |->
     IF has_remote_input(g[i]) /\ g[i].inputs[input_field(g[i])] \in downloaded
     THEN [g[i] EXCEPT !.inputs[input_field(g[i])] =
                         local_filename(g[i].inputs[input_field(g[i])])]
     ELSE g[i]]

\* ', '.join(failed_urls) for the failed URLs taken in the order `order`.
RECURSIVE join_urls(_)
join_urls(order) ==
  IF order = <<>> THEN <<>>
  ELSE IF Len(order) = 1 THEN Head(order)
  ELSE Head(order) \o <<", ">> \o join_urls(Tail(order))

\* The orders a Python set of these URLs may be iterated in.
Orders(S) ==
  { o \in UNION { [1..n -> S] : n \in {Cardinality(S)} } :
      \A i, j \in 1..Len(o) : i /= j => o[i] /= o[j] }

\* _preprocess_workflow's exception: its own message wrapped once more by the
\* enclosing except clause.
MsgPreprocess(order) ==
  <<"preprocess failed: ", "preprocess failed: cannot download ">> \o join_urls(order)

(***************************************************************************)
(* consumer/processors/comfyui.py and comfyui_api.py                       *)
(***************************************************************************)
max_retries == 3
timeout == 150
progress_interval == 3
callback_timeout == 30
retry_total == 3

\* _execute_comfyui_task's except clauses (lines 266-292) applied to an
\* exception of type exc_type with message msg.
handled_outcome(exc_type, msg) ==
  IF exc_type = "ConnectionRefusedError" THEN Unavailable
  ELSE IF is_connection_error(msg) THEN Unavailable
  ELSE Outcome("raised", 0, msg)

handled_cache(cache, exc_type, msg, t) ==
  IF exc_type /= "ConnectionRefusedError" /\ is_connection_error(msg)
  THEN evict(cache, cache_key(t))
  ELSE cache

\* An exception leaves _execute_comfyui_task: control goes to process.
Raise(cache, exc_type, msg) ==
  /\ outcome' = handled_outcome(exc_type, msg)
  /\ client_cache' = handled_cache(cache, exc_type, msg, task)
  /\ pc' = "comfyui_report"

Mut_after_gate(healthy) == "preprocess"

\* _execute_comfyui_task lines 222-238: where control goes after the health
\* gate: on to pre-processing, or back to process with SERVICE_UNAVAILABLE.
after_gate(healthy) == IF healthy THEN "preprocess" ELSE "comfyui_report"

\* ComfyUIProcessor.process lines 65-91 and _execute_comfyui_task lines
\* 205-228: the empty-graph check, the client and the health gate.
ComfyProcess ==
  /\ pc = "comfyui_process"
  /\ IF task.wf_json = GEmpty
     THEN /\ events' = _update_task_status(events, "FAILED", MsgEmptyWf, FALSE, 0,
                                           task.source_channel)
          /\ ret' = -1
          /\ pc' = "process_returned"
          /\ UNCHANGED << requests, health, outcome, wf, client_cache >>
     ELSE \E healthy \in BOOLEAN :
            /\ requests' = requests \cup {"system_stats"}
            /\ client_cache' = with_client(client_cache, task)
            /\ wf' = task.wf_json
            /\ health' = (IF healthy THEN "up" ELSE "down")
            /\ pc' = after_gate(healthy)
            /\ outcome' = (IF healthy THEN outcome ELSE Unavailable)
            /\ UNCHANGED << events, ret >>
  /\ UNCHANGED queue_vars
  /\ UNCHANGED producer_vars
  /\ UNCHANGED loop_vars
  /\ UNCHANGED lora_vars
  /\ UNCHANGED wait_vars
  /\ UNCHANGED callback_vars
  /\ UNCHANGED harvest_vars
  /\ UNCHANGED << consumer_mode, TASK_CALLBACK_URL, allowed_workflows, task, jobs,
                  processor, dispatch, lora_cache_loaded, task_start_times, recvs,
                  clock, last_progress_time >>

\* LoraService._get_comfyui_loras: the catalog of the engine's introspection
\* answer, or the empty list when the request fails.
_get_comfyui_loras(catalog, answered) == IF answered THEN catalog ELSE <<>>

\* ComfyUIProcessor._preprocess_workflow: LoRA repair, URL collection, batch
\* download, path rewrite, and the failure when a URL is missing.
Preprocess ==
  /\ pc = "preprocess"
  /\ \E answered \in (IF needs_lora_catalog(wf) /\ ~lora_cache_loaded
                       THEN BOOLEAN ELSE {TRUE}) :
     LET ask == needs_lora_catalog(wf) /\ ~lora_cache_loaded
         urls == collect_remote_urls(wf)
         cache == IF ask THEN _build_lora_cache(_get_comfyui_loras(engine_loras, answered))
                  ELSE lora_cache
     IN  /\ lora_cache_loaded' = (lora_cache_loaded \/ needs_lora_catalog(wf))
         /\ lora_cache' = cache
         /\ UNCHANGED engine_loras
         /\ UNCHANGED download_vars
         /\ requests' = requests \cup (IF ask THEN {"object_info"} ELSE {})
                                  \cup (IF urls /= <<>> THEN {"download"} ELSE {})
         /\ \E downloaded \in SUBSET Range(urls) :
              /\ wf' = update_workflow_paths(fix_workflow_loras(wf, cache), downloaded)
              /\ IF Range(urls) \ downloaded = {}
                 THEN pc' = "ensure_ws" /\ UNCHANGED << outcome, client_cache >>
                 ELSE \E order \in Orders(Range(urls) \ downloaded) :
                        Raise(client_cache, "Exception", MsgPreprocess(order))
  /\ UNCHANGED queue_vars
  /\ UNCHANGED producer_vars
  /\ UNCHANGED loop_vars
  /\ UNCHANGED wait_vars
  /\ UNCHANGED callback_vars
  /\ UNCHANGED harvest_vars
  /\ UNCHANGED health
  /\ UNCHANGED << consumer_mode, TASK_CALLBACK_URL, allowed_workflows, task, jobs,
                  events, processor, dispatch, ret, task_start_times, recvs, clock,
                  last_progress_time >>

ExcUrlRefused ==
  <<"<urlopen error ", "[Errno 111] ", "Connection", " ", "refused", ">">>

\* ComfyUI.connect_websocket when no usable connection is held: the health
\* probe, then up to max_retries connection attempts.  `cache` is the client
\* cache the call starts from and `nextpc` where control goes on success.
Connect(cache, nextpc) ==
  \E healthy \in BOOLEAN :
    IF ~healthy
    THEN /\ requests' = requests \cup {"system_stats"}
         /\ Raise(cache, "ConnectionRefusedError", ExcNotAvailable)
    ELSE \E attempts \in 1..max_retries, ok \in BOOLEAN :
           /\ ok \/ attempts = max_retries
           /\ requests' = requests \cup {"system_stats", "ws_connect"}
           /\ IF ok
              THEN /\ client_cache' =
                        set_open(set_ws(cache, cache_key(task), TRUE), cache_key(task), TRUE)
                   /\ pc' = nextpc
                   /\ UNCHANGED outcome
              ELSE \E e \in { <<"ConnectionRefusedError", ExcConnRefused>>,
                              <<"Exception", ExcHandshake>> } :
                     Raise(set_ws(cache, cache_key(task), FALSE), e[1], e[2])

\* get_workflow_results line 293: ensure_websocket_connection.
EnsureWs ==
  /\ pc = "ensure_ws"
  /\ IF client_cache[cache_key(task)].ws_connected
     THEN pc' = "queue_prompt" /\ UNCHANGED << requests, outcome, client_cache >>
     ELSE Connect(client_cache, "queue_prompt")
  /\ UNCHANGED queue_vars
  /\ UNCHANGED producer_vars
  /\ UNCHANGED loop_vars
  /\ UNCHANGED lora_vars
  /\ UNCHANGED wait_vars
  /\ UNCHANGED callback_vars
  /\ UNCHANGED harvest_vars
  /\ UNCHANGED health
  /\ UNCHANGED << consumer_mode, TASK_CALLBACK_URL, allowed_workflows, task, jobs,
                  events, processor, dispatch, ret, wf, lora_cache_loaded,
                  task_start_times, recvs, clock, last_progress_time >>

\* ComfyUI.queue_prompt: POST /prompt.
QueuePrompt ==
  /\ pc = "queue_prompt"
  /\ requests' = requests \cup {"prompt"}
  /\ \E r \in {"ok", "rejected", "refused"} :
       CASE r = "ok" -> pc' = "wait_entry" /\ UNCHANGED << outcome, client_cache >>
         [] r = "rejected" -> Raise(client_cache, "HTTPError", ExcHttp400)
         [] r = "refused" -> Raise(client_cache, "URLError", ExcUrlRefused)
  /\ UNCHANGED queue_vars
  /\ UNCHANGED producer_vars
  /\ UNCHANGED loop_vars
  /\ UNCHANGED lora_vars
  /\ UNCHANGED wait_vars
  /\ UNCHANGED callback_vars
  /\ UNCHANGED harvest_vars
  /\ UNCHANGED health
  /\ UNCHANGED << consumer_mode, TASK_CALLBACK_URL, allowed_workflows, task, jobs,
                  events, processor, dispatch, ret, wf, lora_cache_loaded,
                  task_start_times, recvs, clock, last_progress_time >>

\* wait_for_completion lines 182-191: the ping of is_websocket_alive and the
\* reconnect when it fails.
WaitEntry ==
  /\ pc = "wait_entry"
  /\ \E alive \in BOOLEAN :
       IF alive
       THEN pc' = "wait" /\ UNCHANGED << requests, outcome, client_cache >>
       ELSE Connect(set_ws(client_cache, cache_key(task), FALSE), "wait")
  /\ UNCHANGED queue_vars
  /\ UNCHANGED producer_vars
  /\ UNCHANGED loop_vars
  /\ UNCHANGED lora_vars
  /\ UNCHANGED wait_vars
  /\ UNCHANGED callback_vars
  /\ UNCHANGED harvest_vars
  /\ UNCHANGED health
  /\ UNCHANGED << consumer_mode, TASK_CALLBACK_URL, allowed_workflows, task, jobs,
                  events, processor, dispatch, ret, wf, lora_cache_loaded,
                  task_start_times, recvs, clock, last_progress_time >>

\* time.time() inside wait_for_completion, `elapsed` seconds after
\* start_time, which is far from the epoch.
current_time(elapsed) == progress_interval * 1000 + elapsed

MsgProgress(text) == <<"progress: ", text>>

\* The progress events of the model: value, max and how they print.
ProgressEvents == { <<50, 100, "50/100">>, <<95, 100, "95/100">> }

Mut_should_notify(now, value, max) == TRUE

\* wait_for_completion lines 252-261, `now` being current_time.
should_notify(now, value, max) ==
  \/ now - last_progress_time >= progress_interval
  \/ (max > 0 /\ 10 * value >= 9 * max)

\* How long one _update_task_status call may take: no time when it is
\* skipped or answered at once (2xx or an error answer), and up to the
\* client timeout for each of the 1 + retry_total attempts when the endpoint
\* does not answer.
callback_durations(source_channel) ==
  IF update_url(source_channel) /= None /\ ~callbacks_ok
  THEN {0, callback_timeout * (1 + retry_total)}
  ELSE {0}

\* wait_for_completion raises: its locals are gone.
wait_returns ==
  /\ recvs' = 0
  /\ ws_msg' = NoMsg
  /\ clock' = 0
  /\ last_progress_time' = 0
  /\ callback_time' = 0

\* One turn of wait_for_completion's loop: the deadline test, one ws.recv()
\* and the handling of what it returned.  A recv that times out has blocked
\* for the socket timeout, which is the per-job timeout.
Recv ==
  /\ pc = "wait"
  /\ IF clock > timeout
     THEN /\ Raise(set_ws(client_cache, cache_key(task), FALSE), "TimeoutError",
                   ExcTimedOut)
          /\ wait_returns
          /\ UNCHANGED events
     ELSE /\ \E got \in {"message", "error", "recv_timeout", "closed"}, m \in Messages :
             LET kind == IF got = "message" THEN handling(m, PromptId) ELSE got IN
               \* (a recv that raised returned no message: one choice of m)
               /\ got = "message" \/ m = WsMessage("status", None, None)
               /\ client_cache[cache_key(task)].ws_open \/ kind = "closed"
               /\ recvs < MaxRecv
                  \/ kind \in {"terminal", "error", "recv_timeout", "closed"}
               /\ CASE kind = "terminal" ->
                         \* the marker comes at once or after the recv
                         \* has blocked for up to the socket timeout
                         \* (of the time the wait took the harvest step sees
                         \* only whether it exceeded the deadline)
                         /\ \E dt \in {0, timeout} :
                              clock' = (IF clock + dt > timeout THEN timeout + 1 ELSE 0)
                         /\ pc' = "harvest"
                         /\ ws_msg' = m
                         /\ recvs' = 0
                         /\ last_progress_time' = 0
                         /\ callback_time' = 0
                         /\ UNCHANGED << events, outcome, client_cache >>
                    [] kind = "error" ->
                         /\ Raise(set_ws(client_cache, cache_key(task), FALSE),
                                  "Exception", ExcConnReset)
                         /\ wait_returns
                         /\ UNCHANGED events
                    [] kind = "recv_timeout" ->
                         /\ clock' = clock + timeout + 1
                         /\ recvs' = recvs + 1
                         /\ UNCHANGED << pc, events, outcome, client_cache,
                                         last_progress_time, callback_time, ws_msg >>
                    [] kind = "closed" ->
                         \* connect_websocket finds ws_connected set and returns
                         \* at once: the dead socket is kept and every later
                         \* recv fails the same way until the deadline.
                         /\ \E dt \in {0, timeout + 1} :
                              /\ recvs < MaxRecv \/ dt > 0
                              /\ clock' = clock + dt
                         /\ client_cache' = set_open(client_cache, cache_key(task), FALSE)
                         /\ recvs' = recvs + 1
                         /\ UNCHANGED << pc, events, outcome, last_progress_time,
                                         callback_time, ws_msg >>
                    [] kind = "other" ->
                         /\ ws_msg' = m
                         /\ \E dt \in {0, progress_interval} : clock' = clock + dt
                         /\ recvs' = recvs + 1
                         /\ UNCHANGED << pc, events, outcome, client_cache,
                                         last_progress_time, callback_time >>
                    [] kind = "progress" ->
                         \* the callback is made inside the loop: the time
                         \* it takes passes before the next deadline test
                         /\ recvs' = recvs + 1
                         /\ ws_msg' = m
                         /\ \E dt \in {0, progress_interval} :
                              \E p \in ProgressEvents :
                                LET now == current_time(clock + dt)
                                IN  IF should_notify(now, p[1], p[2])
                                    THEN /\ events' = _update_task_status(
                                               events, "PROCESSING", MsgProgress(p[3]),
                                               FALSE, 0, task.source_channel)
                                         /\ last_progress_time' = now
                                         /\ \E took \in callback_durations(task.source_channel) :
                                              /\ clock' = clock + dt + took
                                              /\ callback_time' = callback_time + took
                                    ELSE /\ clock' = clock + dt
                                         /\ UNCHANGED << events, last_progress_time,
                                                         callback_time >>
                         /\ UNCHANGED << pc, outcome, client_cache >>
  /\ UNCHANGED queue_vars
  /\ UNCHANGED producer_vars
  /\ UNCHANGED loop_vars
  /\ UNCHANGED lora_vars
  /\ UNCHANGED callbacks_ok
  /\ UNCHANGED harvest_vars
  /\ UNCHANGED health
  /\ UNCHANGED << consumer_mode, TASK_CALLBACK_URL, allowed_workflows, task, jobs,
                  requests, processor, dispatch, ret, wf, lora_cache_loaded,
                  task_start_times >>

(***************************************************************************)
(* services/result_node_service.py: the harvest of the Upload Tasks.       *)
(* A file name is <<stem, extension>>, the stem a text; a format is a text  *)
(* such as                                                                 *)
(* <<"video", "/h264-", "mp4">>.  A node output maps the fields present to *)
(* their lists of entries.                                                 *)
(***************************************************************************)
Today == "20240101"

Entry(filename, format) == [filename |-> filename, format |-> format]

\* An Upload Task as collect_results appends it.
UploadTask(type, filename, path, node_id) ==
  [type |-> type, filename |-> filename, path |-> path, node_id |-> node_id,
   file_data |-> FALSE]

\* str(n) of a small natural number.
str(n) == <<"0", "1", "2", "3", "4", "5", "6", "7", "8", "9">>[n + 1]

Mut_next_sequence(tasks) == 0

\* The sequence number of the next path: len(upload_tasks).
next_sequence(tasks) == Len(tasks)

\* f"{datetime.now():%Y%m%d}/{message_id}<infix>{len(upload_tasks)}<ext>"
upload_path(message_id, infix, tasks, ext) ==
  <<Today, "/">> \o message_id \o <<infix, str(next_sequence(tasks)), ext>>

\* os.path.splitext(filename)[1] or default
ext_or(filename, default) == IF filename[2] /= "" THEN filename[2] ELSE default

\* x in node_output
has_field(node_output, x) == x \in DOMAIN node_output

\* One `for info in entries` loop of a handler: every entry with a file name
\* appends one task of the given type and path infix.  The extension is the
\* fixed one (SaveImage, PreviewImage) or splitext(filename)[1] or default.
RECURSIVE collect_entries(_, _, _, _, _, _, _, _)
collect_entries(entries, type, infix, fixed, default_ext, node_id, message_id, tasks) ==
  IF entries = <<>> THEN tasks
  ELSE LET e == Head(entries)
           ext == IF fixed THEN default_ext ELSE ext_or(e.filename, default_ext)
           added ==
             IF ~Truthy(e.filename) THEN tasks
             ELSE Append(tasks,
                         UploadTask(type, e.filename,
                                    upload_path(message_id, infix, tasks, ext),
                                    node_id))
       IN  collect_entries(Tail(entries), type, infix, fixed, default_ext, node_id,
                           message_id, added)

\* SaveImageResultHandler.collect_results
SaveImage_collect(node_id, node_data, node_output, message_id, tasks) ==
  IF has_field(node_output, "images")
  THEN collect_entries(node_output.images, "image", "_", TRUE, ".png", node_id,
                       message_id, tasks)
  ELSE tasks

\* PreviewImageResultHandler.collect_results
PreviewImage_collect(node_id, node_data, node_output, message_id, tasks) ==
  IF has_field(node_output, "images")
  THEN collect_entries(node_output.images, "image", "_preview_", TRUE, ".png", node_id,
                       message_id, tasks)
  ELSE tasks

tasks_of_node(tasks, node_id) ==
  Cardinality({ i \in 1..Len(tasks) : tasks[i].node_id = node_id })

\* node_data.get("inputs", {}).get("filename_prefix", "")
filename_prefix(node_data) ==
  IF "filename_prefix" \in DOMAIN node_data.inputs
  THEN node_data.inputs.filename_prefix ELSE Empty

\* SaveVideoResultHandler.collect_results: the fields images, videos, gifs in
\* this order, a return as soon as the task list is non-empty after a field,
\* then the fallback built from filename_prefix.
RECURSIVE SaveVideo_fields(_, _, _, _, _)
SaveVideo_fields(fields, node_id, node_output, message_id, tasks) ==
  IF fields = <<>> THEN [done |-> FALSE, tasks |-> tasks]
  ELSE IF ~has_field(node_output, Head(fields))
       THEN SaveVideo_fields(Tail(fields), node_id, node_output, message_id, tasks)
       ELSE LET after == collect_entries(node_output[Head(fields)], "video", "_video_",
                                         FALSE, ".mp4", node_id, message_id, tasks)
            IN  IF after /= <<>> THEN [done |-> TRUE, tasks |-> after]
                ELSE SaveVideo_fields(Tail(fields), node_id, node_output, message_id, after)

SaveVideo_collect(node_id, node_data, node_output, message_id, tasks) ==
  LET r == SaveVideo_fields(<<"images", "videos", "gifs">>, node_id, node_output,
                            message_id, tasks)
  IN  IF r.done THEN r.tasks
      ELSE IF tasks_of_node(r.tasks, node_id) = 0 /\ Truthy(filename_prefix(node_data))
           THEN Append(r.tasks,
                       UploadTask("video",
                                  <<filename_prefix(node_data) \o <<"_00001">>, ".mp4">>,
                                  upload_path(message_id, "_video_", r.tasks, ".mp4"),
                                  node_id))
           ELSE r.tasks

\* SaveAudioResultHandler.collect_results
SaveAudio_collect(node_id, node_data, node_output, message_id, tasks) ==
  IF has_field(node_output, "audio")
  THEN collect_entries(node_output.audio, "audio", "_audio_", FALSE, ".wav", node_id,
                       message_id, tasks)
  ELSE IF has_field(node_output, "audios")
  THEN collect_entries(node_output.audios, "audio", "_audio_", FALSE, ".wav", node_id,
                       message_id, tasks)
  ELSE tasks

FmtGif == <<"image", "/", "gif">>
FmtMp4 == <<"video", "/h264-", "mp4">>
FmtWebm == <<"video", "/", "webm">>
FmtWav == <<"audio", "/", "wav">>

\* format_type.startswith('image') or format_type.startswith('video')
is_media_format(format) ==
  StartsWith(format, <<"image">>) \/ StartsWith(format, <<"video">>)

\* The extension inferred from the format when the file name has none.
vhs_ext(filename, format, last) ==
  IF filename[2] /= "" THEN filename[2]
  ELSE IF Contains(format, <<"mp4">>) THEN ".mp4"
  ELSE IF Contains(format, <<"webm">>) THEN ".webm"
  ELSE last

\* VHS_VideoCombineResultHandler.collect_results, the gifs loop.
RECURSIVE VHS_gifs(_, _, _, _)
VHS_gifs(gifs, node_id, message_id, tasks) ==
  IF gifs = <<>> THEN tasks
  ELSE LET e == Head(gifs)
           ext == vhs_ext(e.filename, e.format,
                          IF Contains(e.format, <<"gif">>) THEN ".gif" ELSE ".mp4")
           added ==
             IF Truthy(e.format) /\ is_media_format(e.format)
             THEN Append(tasks,
                         UploadTask(IF StartsWith(e.format, <<"video">>) THEN "video" ELSE "image",
                                    e.filename,
                                    upload_path(message_id, "_vhs_", tasks, ext),
                                    node_id))
             ELSE tasks
       IN  VHS_gifs(Tail(gifs), node_id, message_id, added)

\* A widget: kind "image" (a parsed /view path with its folder type) or
\* "preview" (params with a format).
Widget(kind, filename, folder_type, format) ==
  [kind |-> kind, filename |-> filename, folder_type |-> folder_type, format |-> format]

\* VHS_VideoCombineResultHandler.collect_results, the widgets loop.
RECURSIVE VHS_widgets(_, _, _, _)
VHS_widgets(widgets, node_id, message_id, tasks) ==
  IF widgets = <<>> THEN tasks
  ELSE LET w == Head(widgets)
           added ==
             IF w.kind = "image" /\ Truthy(w.filename) /\ w.folder_type = "output"
             THEN Append(tasks,
                         UploadTask("image", w.filename,
                                    upload_path(message_id, "_vhs_widget_", tasks,
                                                ext_or(w.filename, ".png")),
                                    node_id))
             ELSE IF w.kind = "preview" /\ is_media_format(w.format) /\ Truthy(w.filename)
             THEN Append(tasks,
                         UploadTask(IF StartsWith(w.format, <<"video">>) THEN "video" ELSE "image",
                                    w.filename,
                                    upload_path(message_id, "_vhs_preview_", tasks,
                                                vhs_ext(w.filename, w.format, ".png")),
                                    node_id))
             ELSE tasks
       IN  VHS_widgets(Tail(widgets), node_id, message_id, added)

\* The extension of the fallback file, from the node's configured format.
vhs_fallback_ext(format) ==
  IF Contains(format, <<"mp4">>) \/ Contains(format, <<"/h264-">>) THEN ".mp4"
  ELSE IF Contains(format, <<"webm">>) THEN ".webm"
  ELSE IF Contains(format, <<"gif">>) THEN ".gif"
  ELSE ".mp4"

VHS_VideoCombine_collect(node_id, node_data, node_output, message_id, tasks) ==
  LET g == IF has_field(node_output, "gifs")
           THEN VHS_gifs(node_output.gifs, node_id, message_id, tasks)
           ELSE tasks
      w == IF has_field(node_output, "widgets")
           THEN VHS_widgets(node_output.widgets, node_id, message_id, g)
           ELSE g
      save_output == IF "save_output" \in DOMAIN node_data.inputs
                     THEN node_data.inputs.save_output ELSE TRUE
      format == IF "format" \in DOMAIN node_data.inputs
                THEN node_data.inputs.format ELSE FmtMp4
  IN  IF /\ tasks_of_node(w, node_id) = 0
         /\ Truthy(filename_prefix(node_data))
         /\ save_output
      THEN Append(w, UploadTask("video",
                                <<filename_prefix(node_data) \o <<"00001">>,
                                  vhs_fallback_ext(format)>>,
                                upload_path(message_id, "_vhs_", w, vhs_fallback_ext(format)),
                                node_id))
      ELSE w

NoNode(node_id) == Node(node_id, "", <<>>)

\* prompt.get(node_id, {})
prompt_get(prompt, node_id) ==
  IF \E i \in 1..Len(prompt) : prompt[i].key = node_id
  THEN prompt[CHOOSE i \in 1..Len(prompt) : prompt[i].key = node_id]
  ELSE NoNode(node_id)

\* ResultNodeService.get_handler and the call of the handler found: the
\* handlers are tried in their registration order, each by class_type.
handle_node(node_id, node_data, node_output, message_id, tasks) ==
  CASE node_data.class_type = "SaveImage" ->
         SaveImage_collect(node_id, node_data, node_output, message_id, tasks)
    [] node_data.class_type = "PreviewImage" ->
         PreviewImage_collect(node_id, node_data, node_output, message_id, tasks)
    [] node_data.class_type = "SaveVideo" ->
         SaveVideo_collect(node_id, node_data, node_output, message_id, tasks)
    [] node_data.class_type = "SaveAudio" ->
         SaveAudio_collect(node_id, node_data, node_output, message_id, tasks)
    [] node_data.class_type = "VHS_VideoCombine" ->
         VHS_VideoCombine_collect(node_id, node_data, node_output, message_id, tasks)
    [] OTHER -> tasks

\* An item of history[prompt_id]['outputs'].
Output(node_id, output) == [node_id |-> node_id, output |-> output]

\* ResultNodeService.collect_workflow_results: one shared task list, filled
\* in the iteration order of the outputs.
RECURSIVE collect_from(_, _, _, _)
collect_from(prompt, outputs, message_id, tasks) ==
  IF outputs = <<>> THEN tasks
  ELSE collect_from(prompt, Tail(outputs), message_id,
                    handle_node(Head(outputs).node_id,
                                prompt_get(prompt, Head(outputs).node_id),
                                Head(outputs).output, message_id, tasks))

collect_workflow_results(prompt, outputs, message_id) ==
  collect_from(prompt, outputs, message_id, <<>>)

\* The files an engine run may list for a SaveImage node.
ImageEntries(n) == [i \in 1..n |-> Entry(<< <<"ComfyUI_", str(i)>>, ".png" >>, Empty)]

\* The outputs the history may hold for the workflows of the pipeline: none,
\* or up to MaxResults images for each SaveImage node.
HistoryOutputs(prompt) ==
  {<<>>} \cup
  { SelectSeq([i \in 1..Len(prompt) |->
                 Output(prompt[i].key, [images |-> ImageEntries(n)])],
              LAMBDA o : prompt_get(prompt, o.node_id).class_type = "SaveImage")
    : n \in 0..MaxResults }

Mut_valid_upload_tasks(tasks) == 1..Len(tasks)

\* get_workflow_results line 345: the tasks that hold file_data.
valid_upload_tasks(tasks) == { i \in 1..Len(tasks) : tasks[i].file_data }

cdn_url == <<"https://", "cdn.test">>

\* get_workflow_results line 373: f"{cdn_url}/{task['path']}"
result_url(t) == cdn_url \o <<"/">> \o t.path

\* get_workflow_results lines 303-385: the history, the harvest of the upload
\* tasks, one /view fetch per task (a failed fetch leaves the task without
\* file_data), one upload per task with file_data (a failed upload yields no
\* URL), the URLs appended in the order the uploads complete.
Harvest ==
  /\ pc = "harvest"
  /\ clock' = 0
  /\ ws_msg' = NoMsg
  /\ \E r \in {"ok", "error"} :
       IF r = "error"
       THEN /\ requests' = requests \cup {"history"}
            /\ Raise(client_cache, "HTTPError", ExcHttp500)
            /\ UNCHANGED harvest_vars
       ELSE \E outs \in HistoryOutputs(wf) :
              LET collected == collect_workflow_results(wf, outs, task.taskId)
              IN  \E fetched \in SUBSET (1..Len(collected)) :
                    LET tasks == [i \in 1..Len(collected) |->
                                    [collected[i] EXCEPT !.file_data = i \in fetched]]
                    IN  \E uploaded \in SUBSET valid_upload_tasks(tasks) :
                          \E order \in Orders(uploaded) :
                            /\ history_outputs' = outs
                            /\ upload_tasks' = tasks
                            /\ output_urls' = [k \in 1..Len(order) |->
                                                 result_url(tasks[order[k]])]
                            /\ requests' = requests \cup {"history"}
                                 \cup (IF Len(tasks) > 0 THEN {"view"} ELSE {})
                                 \cup (IF valid_upload_tasks(tasks) /= {}
                                       THEN {"upload"} ELSE {})
                            /\ outcome' = Outcome("results", Len(order), Empty)
                            /\ pc' = "comfyui_report"
                            /\ UNCHANGED client_cache
  /\ UNCHANGED queue_vars
  /\ UNCHANGED producer_vars
  /\ UNCHANGED loop_vars
  /\ UNCHANGED lora_vars
  /\ UNCHANGED callback_vars
  /\ UNCHANGED health
  /\ UNCHANGED << consumer_mode, TASK_CALLBACK_URL, allowed_workflows, task, jobs,
                  events, processor, dispatch, ret, wf, lora_cache_loaded,
                  task_start_times, recvs, last_progress_time >>

\* C31: the URLs get_workflow_results returns are in the harvest order of the
\* Upload Tasks they belong to.
C31_UrlsInHarvestOrder ==
  (pc = "comfyui_report" /\ outcome.kind = "results") =>
    output_urls = SelectSeq([i \in 1..Len(upload_tasks) |-> result_url(upload_tasks[i])],
                            LAMBDA u : u \in Range(output_urls))

Mut_has_results(n) == TRUE

\* process line 132: `if results and len(results) > 0`, n = len(results).
has_results(n) == n > 0

\* The value _update_task_status returns: True only for a callback that
\* was sent and answered with success.
update_succeeds(source_channel) ==
  update_url(source_channel) /= None /\ callbacks_ok

Mut_process_returns(results, reported) == IF reported THEN results ELSE -1

\* process lines 145-162: update_success, the return value of the terminal
\* callback, only chooses the log line; `results` is returned either way.
process_returns(results, reported) == results

\* ComfyUIProcessor.process lines 106-203: what it reports and returns once
\* _execute_comfyui_task has returned or raised.
ComfyReport ==
  /\ pc = "comfyui_report"
  /\ CASE outcome.kind = "unavailable" ->
            /\ ret' = -1
            /\ UNCHANGED events
       [] outcome.kind = "results" ->
            LET ev == _update_task_status(events, "PROCESSING", Empty, FALSE, 0,
                                          task.source_channel)
            IN  IF has_results(outcome.n)
                THEN /\ events' = _update_task_status(ev, "COMPLETED", Empty, TRUE,
                                                      outcome.n, task.source_channel)
                     /\ ret' = process_returns(outcome.n,
                                                update_succeeds(task.source_channel))
                ELSE /\ events' = _update_task_status(ev, "FAILED", MsgNoResults, FALSE,
                                                      0, task.source_channel)
                     /\ ret' = -1
       [] outcome.kind = "raised" ->
            /\ events' = _update_task_status(events, "FAILED", outcome.msg, FALSE, 0,
                                             task.source_channel)
            /\ ret' = -1
  /\ pc' = "process_returned"
  /\ UNCHANGED queue_vars
  /\ UNCHANGED producer_vars
  /\ UNCHANGED loop_vars
  /\ UNCHANGED lora_vars
  /\ UNCHANGED wait_vars
  /\ UNCHANGED callback_vars
  /\ UNCHANGED harvest_vars
  /\ UNCHANGED health
  /\ UNCHANGED << consumer_mode, TASK_CALLBACK_URL, allowed_workflows, task, jobs,
                  requests, processor, dispatch, outcome, wf, client_cache,
                  lora_cache_loaded, task_start_times, recvs, clock,
                  last_progress_time >>

\* The engine session of the job in hand, read off the processor's position:
\* CREATED from processor entry, SUBMITTED once queue_prompt has returned a
\* prompt_id, RUNNING while messages are consumed, COMPLETED from the terminal
\* marker on, FAILED and UNAVAILABLE as _execute_comfyui_task ends.
session(p, o) ==
  CASE p \in {"comfyui_process", "preprocess", "ensure_ws", "queue_prompt"} -> "CREATED"
    [] p = "wait_entry" -> "SUBMITTED"
    [] p = "wait" -> "RUNNING"
    [] p = "harvest" -> "COMPLETED"
    [] p = "comfyui_report" ->
         (IF o.kind = "unavailable" THEN "UNAVAILABLE"
          ELSE IF o.kind = "raised" THEN "FAILED"
          ELSE "COMPLETED")
    [] OTHER -> "NONE"

\* The moves of the lifecycle; an error after the marker (the history
\* request) is counted with the moves to FAILED, and process refusing an
\* empty graph ends the job at once.
SessionMoves ==
  { <<"NONE", "NONE">>, <<"NONE", "CREATED">>, <<"CREATED", "NONE">>,
    <<"CREATED", "CREATED">>, <<"CREATED", "SUBMITTED">>,
    <<"SUBMITTED", "RUNNING">>, <<"RUNNING", "RUNNING">>,
    <<"RUNNING", "COMPLETED">>, <<"COMPLETED", "COMPLETED">>,
    <<"CREATED", "FAILED">>, <<"SUBMITTED", "FAILED">>, <<"RUNNING", "FAILED">>,
    <<"COMPLETED", "FAILED">>,
    <<"CREATED", "UNAVAILABLE">>,
    <<"COMPLETED", "NONE">>, <<"FAILED", "NONE">>, <<"UNAVAILABLE", "NONE">> }

\* One step, as a move of the session.
SessionMove == << session(pc, outcome), session(pc', outcome') >> \in SessionMoves

\* C29: every step of a workflow job is a move of the lifecycle CREATED,
\* SUBMITTED, RUNNING, then COMPLETED or FAILED; UNAVAILABLE is entered from
\* CREATED only, never once queue_prompt has returned a prompt_id.
C29_SessionLifecycle ==
  [][SessionMove]_vars

\* The client holds a connection when the graph is submitted, and the step
\* between queue_prompt and the first recv goes to the wait loop with the
\* connection the client had: connect_websocket is not run in between.
SubscribedThroughSubmit ==
  /\ pc = "queue_prompt" => client_cache[cache_key(task)].ws_connected
  /\ pc = "wait_entry" => (pc' = "wait" /\ client_cache' = client_cache)

\* C40: the subscription is established before the graph is submitted and no
\* connection is opened between queue_prompt and the first recv of
\* wait_for_completion, so the client is subscribed whenever the engine may
\* emit the terminal marker of the prompt.
C40_SubscribedBeforeSubmit == [][SubscribedThroughSubmit]_vars

\* A turn of the wait loop whose ws.recv() raised something other than a
\* receive timeout: afterwards the client is gone from the cache or the
\* socket it holds delivers nothing.
RecvFailed ==
  /\ pc = "wait"
  /\ clock <= timeout
  /\ \/ cache_key(task) \notin DOMAIN client_cache'
     \/ ~client_cache'[cache_key(task)].ws_open

\* C27: a turn of the wait loop whose recv failed either goes on waiting on a
\* newly established connection (the reconnect succeeded) or ends the job as
\* UNAVAILABLE (the reconnect failed).
C27_ReconnectOnRecvError ==
  [][ RecvFailed =>
        \/ pc' = "wait" /\ client_cache'[cache_key(task)].ws_open
        \/ pc' = "comfyui_report" /\ outcome' = Unavailable ]_vars

\* C26: when process has returned from a job whose execution raised an
\* exception answered with SERVICE_UNAVAILABLE (the health gate had passed),
\* the client of the job's workflow is no longer in the client cache; after
\* any other exception the processor's FAILED callback carries the message.
C26_EvictedWhenUnavailable ==
  (pc = "process_returned" /\ processor = "comfyui" /\ dispatch = "invoked") =>
    /\ (outcome = Unavailable /\ health = "up") =>
          cache_key(task) \notin DOMAIN client_cache
    /\ (outcome.kind = "raised" /\ update_url(task.source_channel) /= None) =>
          /\ events /= <<>>
          /\ Payload(events[Len(events)]) =
                Cb("processor", "FAILED", outcome.msg, FALSE, 0)

(***************************************************************************)
(* consumer/processors/facefusion.py                                       *)
(***************************************************************************)
MsgMissingUrl == <<"missing source image or target file URL">>
MsgSwapping == <<"swapping faces...">>
MsgUploading == <<"uploading result files...">>
MsgDownloadFailed == <<"download failed: ", "https://", "x.test/", "s.jpg">>
MsgNoOutput == <<"FaceSwap failed: output file missing">>
MsgUploadFailed == <<"upload failed: ", "faceswap_", "t1", "_output">>

\* wf_json.get(key)
wf_get(g, key) ==
  IF \E i \in 1..Len(g) : g[i].key = key
  THEN g[CHOOSE i \in 1..Len(g) : g[i].key = key].val
  ELSE None

\* FaceFusionProcessor._update_task_status: the POST goes to
\* (source_channel or task_api_url) + path, which requests refuses to send
\* unless it has an http(s) scheme.
ff_update_task_status(ev, status, msg, out, n, source_channel) ==
  IF is_remote_url(Or(source_channel, task_api_url))
  THEN Append(ev, Post(Or(source_channel, task_api_url) \o UpdatePath,
                       Cb("processor", status, msg, out, n)))
  ELSE ev

\* FaceFusionProcessor.process with _execute_faceswap_task.
FaceFusionProcess ==
  /\ pc = "facefusion_process"
  /\ LET sc == task.source_channel
         up(ev, status, msg, out, n) == ff_update_task_status(ev, status, msg, out, n, sc)
         ev1 == up(events, "PROCESSING", Empty, FALSE, 0)
         ev2 == up(ev1, "PROCESSING", MsgSwapping, FALSE, 0)
         ev3 == up(ev2, "PROCESSING", MsgUploading, FALSE, 0)
     IN  IF ~Truthy(wf_get(task.wf_json, "source_url"))
            \/ ~Truthy(wf_get(task.wf_json, "target_url"))
         THEN /\ events' = up(events, "FAILED", MsgMissingUrl, FALSE, 0)
              /\ ret' = -1
         ELSE \E r \in {"download_failed", "swap_failed", "upload_failed", "ok"} :
                CASE r = "download_failed" ->
                       /\ events' = up(ev1, "FAILED", MsgDownloadFailed, FALSE, 0)
                       /\ ret' = -1
                  [] r = "swap_failed" ->
                       /\ events' = up(ev2, "FAILED", MsgNoOutput, FALSE, 0)
                       /\ ret' = -1
                  [] r = "upload_failed" ->
                       /\ events' = up(ev3, "FAILED", MsgUploadFailed, FALSE, 0)
                       /\ ret' = -1
                  [] r = "ok" ->
                       \E n \in 1..MaxResults :
                         /\ events' = up(ev3, "COMPLETED", Empty, TRUE, n)
                         /\ ret' = n
  /\ pc' = "process_returned"
  /\ UNCHANGED queue_vars
  /\ UNCHANGED producer_vars
  /\ UNCHANGED loop_vars
  /\ UNCHANGED lora_vars
  /\ UNCHANGED wait_vars
  /\ UNCHANGED callback_vars
  /\ UNCHANGED harvest_vars
  /\ UNCHANGED health
  /\ UNCHANGED << consumer_mode, TASK_CALLBACK_URL, allowed_workflows, task, jobs,
                  requests, processor, dispatch, outcome, wf, client_cache,
                  lora_cache_loaded, task_start_times, recvs, clock,
                  last_progress_time >>

(***************************************************************************)
(* consumer/task_consumer.py, after the processor has returned.            *)
(***************************************************************************)
\* process_task lines 222-244: the dispatcher's own report in Redis mode.
DispatchReport ==
  /\ pc = "process_returned"
  /\ IF consumer_mode = "redis_queue"
     THEN /\ events' = (IF ret > 0 THEN send_success(events, ret)
                        ELSE send_failure(events, MsgEmptyResult))
          /\ task_start_times' = pop(task_start_times, task.taskId)
     ELSE UNCHANGED << events, task_start_times >>
  /\ pc' = "fetch"
  /\ UNCHANGED queue_vars
  /\ UNCHANGED producer_vars
  /\ UNCHANGED loop_vars
  /\ UNCHANGED lora_vars
  /\ UNCHANGED wait_vars
  /\ UNCHANGED callback_vars
  /\ UNCHANGED harvest_vars
  /\ UNCHANGED health
  /\ UNCHANGED << consumer_mode, TASK_CALLBACK_URL, allowed_workflows, task, jobs,
                  requests, processor, dispatch, outcome, ret, wf, client_cache,
                  lora_cache_loaded, recvs, clock, last_progress_time >>

\* C35: the start-time map holds the entry of a job from the dispatcher's
\* PROCESSING callback until its terminal callback, and once process_task has
\* returned, by whichever path, the map holds no entry.
C35_StartTimesCleared ==
  /\ (pc = "fetch" => task_start_times = {})
  /\ (consumer_mode = "redis_queue" /\ dispatch = "invoked"
        /\ pc \notin {"fetch", "process_task"})
       => task_start_times = {task.taskId}

\* A Redis-mode job went through the processor, failed, and process_task has
\* returned after its FAILED callback.
C35_Witness ==
  /\ pc = "fetch"
  /\ consumer_mode = "redis_queue"
  /\ dispatch = "invoked"
  /\ ret <= 0
  /\ task_start_times = {}
  /\ \E i \in 1..Len(events) : events[i].status = "PROCESSING"
  /\ events # <<>> /\ events[Len(events)].status = "FAILED"

\* C37: for every job handed to the ComfyUI processor, the workflow name the
\* gate checked (an empty name standing for the default) is the name that
\* selected the processor and the name whose engine client the job uses,
\* whichever of workflowName, workflow, workflow_name the producer filled.
C37_OneWorkflowName ==
  (dispatch = "invoked" /\ pc \in {"preprocess", "ensure_ws"})
    => /\ processor = get_processor(task_workflow_name(task))
       /\ cache_key(task) = (IF Truthy(task_workflow_name(task))
                             THEN task_workflow_name(task) ELSE WfDefault)

(***************************************************************************)
(* consumer/queue_consumer.py: producers and concurrent consumers.         *)
(***************************************************************************)
\* The pipeline at rest while the queue is exercised.
PipelineIdle ==
  /\ consumer_mode = "redis_queue"
  /\ TASK_CALLBACK_URL = Empty
  /\ allowed_workflows = << <<"*">> >>
  /\ pc = "fetch"
  /\ task = NoTask
  /\ jobs = 0
  /\ events = <<>>
  /\ requests = {}
  /\ processor = "none"
  /\ dispatch = ""
  /\ health = ""
  /\ outcome = NoOutcome
  /\ ret = -1
  /\ wf = GEmpty
  /\ client_cache = <<>>
  /\ lora_cache_loaded = FALSE
  /\ lora_cache = EmptyCache
  /\ ws_msg = NoMsg
  /\ gets = <<>>
  /\ download_results = <<>>
  /\ dl = BatchStart
  /\ engine_loras = EngineLoras
  /\ task_start_times = {}
  /\ recvs = 0
  /\ clock = 0
  /\ last_progress_time = 0
  /\ history_outputs = <<>>
  /\ upload_tasks = <<>>
  /\ output_urls = <<>>
  /\ callbacks_ok = TRUE
  /\ fetch_result = ""
  /\ idle_ticks = 0
  /\ callback_time = 0

InitQueue == PipelineIdle /\ QueueIdle

\* QueueConsumer.push_task: the availability check, then LPUSH to the lane of
\* the priority.  The job pushed is numbered by its position in `pushed`.
push_task ==
  /\ Len(pushed) < MaxPush
  /\ \E priority \in Priorities, available \in BOOLEAN, ok \in BOOLEAN :
       IF available /\ ok
       THEN /\ pushed' = Append(pushed, queue_map(priority))
            /\ lanes' = [lanes EXCEPT ![queue_map(priority)] =
                                        lpush(@, Len(pushed) + 1)]
       ELSE UNCHANGED << pushed, lanes >>
  /\ UNCHANGED << qpc, found_empty, returned, first_fetch_at >>
  /\ UNCHANGED pipeline_vars
  /\ UNCHANGED producer_vars

\* QueueConsumer.fetch_task lines 49-51: the call begins with is_available.
fetch_task_begin(c) ==
  /\ qpc[c] = 0
  /\ \E available \in BOOLEAN :
       qpc' = [qpc EXCEPT ![c] = IF available THEN 1 ELSE 0]
  /\ found_empty' = [found_empty EXCEPT ![c] = {}]
  /\ first_fetch_at' = (IF first_fetch_at = -1 THEN Len(pushed) ELSE first_fetch_at)
  /\ UNCHANGED << lanes, returned, pushed >>
  /\ UNCHANGED pipeline_vars
  /\ UNCHANGED producer_vars

\* QueueConsumer.fetch_task lines 56-70: one turn of the loop over
\* PRIORITY_QUEUES.  RPOP is one atomic command of the server; a failed
\* request ends the call with None.
fetch_task_rpop(c) ==
  /\ qpc[c] > 0
  /\ LET queue_name == PRIORITY_QUEUES[qpc[c]]
     IN  \E ok \in BOOLEAN :
           IF ~ok
           THEN /\ qpc' = [qpc EXCEPT ![c] = 0]
                /\ UNCHANGED << lanes, found_empty, returned >>
           ELSE IF lanes[queue_name] /= <<>>
           THEN /\ returned' = Append(returned,
                                      [job |-> rpop_value(lanes[queue_name]),
                                       lane |-> queue_name, by |-> c,
                                       empty |-> found_empty[c]])
                /\ lanes' = [lanes EXCEPT ![queue_name] = rpop_rest(@)]
                /\ qpc' = [qpc EXCEPT ![c] = 0]
                /\ UNCHANGED found_empty
           ELSE /\ found_empty' = [found_empty EXCEPT ![c] = @ \cup {queue_name}]
                /\ qpc' = [qpc EXCEPT ![c] =
                                   IF qpc[c] < Len(PRIORITY_QUEUES) THEN qpc[c] + 1 ELSE 0]
                /\ UNCHANGED << lanes, returned >>
  /\ UNCHANGED << pushed, first_fetch_at >>
  /\ UNCHANGED pipeline_vars
  /\ UNCHANGED producer_vars

NextQueue ==
  \/ push_task
  \/ \E c \in Consumers : fetch_task_begin(c)
  \/ \E c \in Consumers : fetch_task_rpop(c)

SpecQueue == InitQueue /\ [][NextQueue]_vars

(***************************************************************************)
(* The harvest on its own (specification SpecHarvest): any prompt of up to *)
(* MaxNodes nodes and any outputs of these nodes, handed to                *)
(* collect_workflow_results.                                               *)
(***************************************************************************)
NameOut == << <<"out">>, ".mp4" >>
NameRaw == << <<"raw">>, "" >>

\* The nodes a prompt may hold under a given id.
HarvestNodes(id) ==
  { Node(id, "SaveImage", [filename_prefix |-> <<"out">>]),
    Node(id, "PreviewImage", [images |-> <<"x">>]),
    Node(id, "SaveVideo", [filename_prefix |-> <<"out">>]),
    Node(id, "SaveAudio", [filename_prefix |-> <<"out">>]),
    Node(id, "VHS_VideoCombine", [filename_prefix |-> <<"out">>, format |-> FmtWebm]),
    Node(id, "VHS_VideoCombine", [save_output |-> FALSE]),
    Node(id, "KSampler", [steps |-> <<"20">>]) }

\* The outputs the history may hold for a node.
HarvestOutputs ==
  { [images |-> <<Entry(NameOut, Empty), Entry(NameRaw, Empty)>>],
    [images |-> <<>>, gifs |-> <<Entry(NameRaw, FmtMp4), Entry(NameOut, FmtWav)>>],
    [audio |-> <<Entry(NameRaw, Empty)>>],
    [audios |-> <<Entry(NameOut, Empty)>>],
    [videos |-> <<Entry(NameOut, Empty)>>, gifs |-> <<Entry(NameRaw, FmtGif)>>],
    [widgets |-> <<Widget("image", NameOut, "output", Empty),
                   Widget("image", NameOut, "temp", Empty),
                   Widget("preview", NameRaw, "output", FmtWebm)>>],
    [text |-> <<>>] }

NodeIds == <<"1", "2", "3", "4">>

HarvestPrompts ==
  UNION { { p \in [1..n -> UNION { HarvestNodes(NodeIds[i]) : i \in 1..n }] :
              \A i \in 1..n : p[i].key = NodeIds[i] } : n \in 1..MaxNodes }

InitHarvest ==
  /\ consumer_mode = "http"
  /\ TASK_CALLBACK_URL = Empty
  /\ allowed_workflows = << <<"*">> >>
  /\ pc = "collect"
  /\ task = [NoTask EXCEPT !.taskId = IdT1]
  /\ jobs = 0
  /\ events = <<>>
  /\ requests = {"history"}
  /\ processor = "comfyui"
  /\ dispatch = "invoked"
  /\ health = "up"
  /\ outcome = NoOutcome
  /\ ret = -1
  /\ wf \in HarvestPrompts
  /\ client_cache = <<>>
  /\ lora_cache_loaded = FALSE
  /\ lora_cache = EmptyCache
  /\ ws_msg = NoMsg
  /\ gets = <<>>
  /\ download_results = <<>>
  /\ dl = BatchStart
  /\ engine_loras = EngineLoras
  /\ task_start_times = {}
  /\ recvs = 0
  /\ clock = 0
  /\ last_progress_time = 0
  /\ history_outputs \in { o \in [1..Len(wf) -> { Output(NodeIds[i], x) :
                                                   i \in 1..Len(wf), x \in HarvestOutputs }] :
                            \A i \in 1..Len(wf) : o[i].node_id = NodeIds[i] }
  /\ upload_tasks = <<>>
  /\ output_urls = <<>>
  /\ callbacks_ok = TRUE
  /\ fetch_result = "task"
  /\ idle_ticks = 0
  /\ callback_time = 0
  /\ QueueIdle

\* get_workflow_results line 326: the call of collect_workflow_results.
CollectResults ==
  /\ pc = "collect"
  /\ upload_tasks' = collect_workflow_results(wf, history_outputs, task.taskId)
  /\ pc' = "collected"
  /\ UNCHANGED queue_vars
  /\ UNCHANGED producer_vars
  /\ UNCHANGED loop_vars
  /\ UNCHANGED lora_vars
  /\ UNCHANGED wait_vars
  /\ UNCHANGED callback_vars
  /\ UNCHANGED << consumer_mode, TASK_CALLBACK_URL, allowed_workflows, task, jobs,
                  events, requests, processor, dispatch, health, outcome, ret, wf,
                  client_cache, lora_cache_loaded, task_start_times, recvs, clock,
                  last_progress_time, history_outputs, output_urls >>

NextHarvest == CollectResults

SpecHarvest == InitHarvest /\ [][NextHarvest]_vars

\* The files (type and file name, in order) of the tasks a node contributed;
\* the upload path is left out, it carries the length of the shared list.
files_of(tasks, node_id) ==
  LET own == SelectSeq(tasks, LAMBDA t : t.node_id = node_id)
  IN  [i \in 1..Len(own) |-> << own[i].type, own[i].filename >>]

\* C38: the files harvested for a SaveVideo node are those its handler
\* collects from the node's own output and configuration on an empty task
\* list, whatever earlier nodes of the job have contributed.
C38_SaveVideoIndependent ==
  pc = "collected" =>
    \A i \in 1..Len(history_outputs) :
      LET node_id == history_outputs[i].node_id
          node_data == prompt_get(wf, node_id)
      IN  node_data.class_type = "SaveVideo"
            => files_of(upload_tasks, node_id)
                 = files_of(SaveVideo_collect(node_id, node_data,
                                              history_outputs[i].output,
                                              task.taskId, <<>>), node_id)

(***************************************************************************)
(* The harvest when the history leaves nodes of the submitted graph out.   *)
(***************************************************************************)
OmitNodes(id) ==
  HarvestNodes(id) \cup
  { Node(id, "VHS_VideoCombine",
         [filename_prefix |-> <<"out">>, format |-> FmtMp4, save_output |-> TRUE]) }

OmitPrompts ==
  UNION { { p \in [1..n -> UNION { OmitNodes(NodeIds[i]) : i \in 1..n }] :
              \A i \in 1..n : p[i].key = NodeIds[i] } : n \in 1..MaxNodes }

\* The history outputs of a prompt: an output for some of its nodes.
OmitOutputs(prompt) ==
  { SelectSeq(o, LAMBDA x : x.node_id \in kept) :
      o \in { f \in [1..Len(prompt) -> { Output(NodeIds[i], x) :
                                         i \in 1..Len(prompt), x \in HarvestOutputs }] :
               \A i \in 1..Len(prompt) : f[i].node_id = NodeIds[i] },
      kept \in SUBSET { NodeIds[i] : i \in 1..Len(prompt) } }

InitOmit ==
  /\ consumer_mode = "http"
  /\ TASK_CALLBACK_URL = Empty
  /\ allowed_workflows = << <<"*">> >>
  /\ pc = "collect"
  /\ task = [NoTask EXCEPT !.taskId = IdT1]
  /\ jobs = 0
  /\ events = <<>>
  /\ requests = {"history"}
  /\ processor = "comfyui"
  /\ dispatch = "invoked"
  /\ health = "up"
  /\ outcome = NoOutcome
  /\ ret = -1
  /\ wf \in OmitPrompts
  /\ client_cache = <<>>
  /\ lora_cache_loaded = FALSE
  /\ lora_cache = EmptyCache
  /\ ws_msg = NoMsg
  /\ gets = <<>>
  /\ download_results = <<>>
  /\ dl = BatchStart
  /\ engine_loras = EngineLoras
  /\ task_start_times = {}
  /\ recvs = 0
  /\ clock = 0
  /\ last_progress_time = 0
  /\ history_outputs \in OmitOutputs(wf)
  /\ upload_tasks = <<>>
  /\ output_urls = <<>>
  /\ callbacks_ok = TRUE
  /\ fetch_result = "task"
  /\ idle_ticks = 0
  /\ callback_time = 0
  /\ QueueIdle

NextOmit == CollectResults

SpecOmit == InitOmit /\ [][NextOmit]_vars

\* VHS_VideoCombineResultHandler.collect_results line 300:
\* inputs.get("save_output", True).
save_output(node_data) ==
  IF "save_output" \in DOMAIN node_data.inputs THEN node_data.inputs.save_output
  ELSE TRUE

\* C33: after the harvest, a VHS_VideoCombine node of the submitted graph that
\* the history outputs omit has an Upload Task exactly when its save_output
\* is truthy.
C33_OmittedVhsHarvested ==
  pc = "collected" =>
    \A i \in 1..Len(wf) :
       (/\ wf[i].class_type = "VHS_VideoCombine"
        /\ \A j \in 1..Len(history_outputs) : history_outputs[j].node_id /= wf[i].key)
       => (save_output(wf[i]) <=> tasks_of_node(upload_tasks, wf[i].key) > 0)

Next ==
  \/ FetchTask
  \/ ProcessTask
  \/ ComfyProcess
  \/ Preprocess
  \/ EnsureWs
  \/ QueuePrompt
  \/ WaitEntry
  \/ Recv
  \/ Harvest
  \/ ComfyReport
  \/ FaceFusionProcess
  \/ DispatchReport

Spec == Init /\ [][Next]_vars

\* The same program for one configuration of each mode (every workflow
\* allowed, TASK_CALLBACK_URL set), with a callback endpoint that answers or
\* one that fails every status callback.
InitCallbacks ==
  /\ allowed_workflows = << <<"*">> >>
  /\ TASK_CALLBACK_URL = CallbackBase
  /\ consumer_mode \in {"http", "redis_queue"}
  /\ callbacks_ok \in BOOLEAN
  /\ ConsumerIdle

SpecCallbacks == InitCallbacks /\ [][Next]_vars

\* The same program with the one scheduling fact the wait relies on: a
\* blocked ws.recv() returns or raises within the socket timeout, so a turn
\* of the loop of wait_for_completion is always taken.
\* It is run for one configuration of each mode: every workflow allowed and
\* TASK_CALLBACK_URL set.
InitLive ==
  /\ Init
  /\ allowed_workflows = << <<"*">> >>
  /\ TASK_CALLBACK_URL = CallbackBase

SpecLive == InitLive /\ [][Next]_vars /\ WF_vars(Recv)


(***************************************************************************)
(* LoRA repair on its own: one job whose graph holds one LoRA loader, on   *)
(* an engine whose catalog is any list of up to MaxCatalog paths.          *)
(***************************************************************************)
MaxCatalog == 2

LoraFiles == {"x.safetensors", "y.safetensors"}
LoraPaths == { <<f>> : f \in LoraFiles } \cup
             { <<d, f>> : d \in {"loras/", "sd15/"}, f \in LoraFiles }
Catalogs == UNION { [1..n -> LoraPaths] : n \in 0..MaxCatalog }
LoraGraphs ==
  { << Node("3", ct, [lora_name |-> name]), SaveNode >> :
      ct \in LORA_NODE_TYPES, name \in LoraPaths \cup {Empty} }

InitLora ==
  /\ consumer_mode = "http"
  /\ TASK_CALLBACK_URL = Empty
  /\ allowed_workflows = << <<"*">> >>
  /\ pc = "preprocess"
  /\ task \in { [NoTask EXCEPT !.taskId = IdT1, !.wf_json = g] : g \in LoraGraphs }
  /\ jobs = 0
  /\ events = <<>>
  /\ requests = {}
  /\ processor = "comfyui"
  /\ dispatch = "invoked"
  /\ health = "up"
  /\ outcome = NoOutcome
  /\ ret = -1
  /\ wf = task.wf_json
  /\ client_cache = <<>>
  /\ lora_cache_loaded = FALSE
  /\ lora_cache = EmptyCache
  /\ ws_msg = NoMsg
  /\ gets = <<>>
  /\ download_results = <<>>
  /\ dl = BatchStart
  /\ engine_loras \in Catalogs
  /\ task_start_times = {}
  /\ recvs = 0
  /\ clock = 0
  /\ last_progress_time = 0
  /\ history_outputs = <<>>
  /\ upload_tasks = <<>>
  /\ output_urls = <<>>
  /\ callbacks_ok = TRUE
  /\ fetch_result = "task"
  /\ idle_ticks = 0
  /\ callback_time = 0
  /\ QueueIdle

NextLora == Preprocess

SpecLora == InitLora /\ [][NextLora]_vars

\* C25: once the repair has run, every lora_name of the job's graph that was
\* equal to one of the full paths of the engine's catalog is as it was.
C25_CatalogPathsKept ==
  pc = "ensure_ws" =>
    \A i \in 1..Len(task.wf_json) :
       (/\ is_lora_node(task.wf_json[i])
        /\ task.wf_json[i].inputs.lora_name \in Range(engine_loras))
       => wf[i].inputs.lora_name = task.wf_json[i].inputs.lora_name

\* The pre-processing of a job that comes after the catalog was first asked
\* for leaves every LoRA name as the repair with the engine's catalog gives it.
RepairedLater ==
  (pc = "preprocess" /\ lora_cache_loaded /\ pc' = "ensure_ws")
    => \A i \in 1..Len(wf) :
         is_lora_node(wf[i])
           => wf'[i].inputs.lora_name
                = fix_lora_path(wf[i].inputs.lora_name, _build_lora_cache(engine_loras))

\* C39: a failed catalog fetch is not remembered as an empty catalog: the bare
\* LoRA names of a job pre-processed after the first repair request are
\* repaired with the catalog the engine holds.
C39_FailedFetchNotCached == [][RepairedLater]_vars

(***************************************************************************)
(* _preprocess_workflow alone, on graphs whose nodes may share a URL, hold  *)
(* a local name, or hold a URL in an input no handler reads.               *)
(***************************************************************************)
InputChoices ==
  { [ct |-> "LoadImage", inputs |-> [image |-> UrlA]],
    [ct |-> "LoadImage", inputs |-> [image |-> UrlTimeout]],
    [ct |-> "LoadImage", inputs |-> [image |-> <<"local", ".png">>]],
    [ct |-> "LoadImage", inputs |-> [audio |-> UrlA]],
    [ct |-> "LoadAudio", inputs |-> [audio |-> UrlA]],
    [ct |-> "LoadAudio", inputs |-> [audio |-> UrlTimeout]],
    [ct |-> "PreviewImage", inputs |-> [image |-> UrlA]],
    [ct |-> "LoraLoader", inputs |-> [lora_name |-> <<"x.safetensors">>]] }

RewriteGraphs ==
  { [i \in 1..MaxNodes |-> Node(NodeIds[i], c[i].ct, c[i].inputs)] :
      c \in [1..MaxNodes -> InputChoices] }

InitRewrite ==
  /\ consumer_mode = "http"
  /\ TASK_CALLBACK_URL = Empty
  /\ allowed_workflows = << <<"*">> >>
  /\ pc = "preprocess"
  /\ task \in { [NoTask EXCEPT !.taskId = IdT1, !.wf_json = g] : g \in RewriteGraphs }
  /\ jobs = 0
  /\ events = <<>>
  /\ requests = {}
  /\ processor = "comfyui"
  /\ dispatch = "invoked"
  /\ health = "up"
  /\ outcome = NoOutcome
  /\ ret = -1
  /\ wf = task.wf_json
  /\ client_cache = <<>>
  /\ lora_cache_loaded = FALSE
  /\ lora_cache = EmptyCache
  /\ ws_msg = NoMsg
  /\ gets = <<>>
  /\ download_results = <<>>
  /\ dl = BatchStart
  /\ engine_loras = EngineLoras
  /\ task_start_times = {}
  /\ recvs = 0
  /\ clock = 0
  /\ last_progress_time = 0
  /\ history_outputs = <<>>
  /\ upload_tasks = <<>>
  /\ output_urls = <<>>
  /\ callbacks_ok = TRUE
  /\ fetch_result = "task"
  /\ idle_ticks = 0
  /\ callback_time = 0
  /\ QueueIdle

NextRewrite == Preprocess

SpecRewrite == InitRewrite /\ [][NextRewrite]_vars

\* The input of a node that held a remote URL before pre-processing.
held_url(node) == node.inputs[input_field(node)]

\* C36: after _preprocess_workflow has returned normally, every LoadImage.image
\* and LoadAudio.audio input that held a remote URL holds the local filename
\* of that URL (every node sharing the URL), no such input holds an http(s)
\* URL, and the only other input that may differ is a LoRA node's lora_name.
C36_RemoteInputsRewritten ==
  pc = "ensure_ws" =>
    /\ Len(wf) = Len(task.wf_json)
    /\ \A i \in 1..Len(wf) :
         LET old == task.wf_json[i]
             new == wf[i]
         IN  /\ new.key = old.key /\ new.class_type = old.class_type
             /\ DOMAIN new.inputs = DOMAIN old.inputs
             /\ has_remote_input(old)
                  => new.inputs[input_field(old)] = local_filename(held_url(old))
             /\ ~has_remote_input(new)
             /\ \A f \in DOMAIN old.inputs :
                  new.inputs[f] /= old.inputs[f]
                    => \/ has_remote_input(old) /\ f = input_field(old)
                       \/ is_lora_node(old) /\ f = "lora_name"

\* Pre-processing returned normally for a graph in which two nodes held the
\* same remote URL, and both hold its local filename.
C36_Witness ==
  /\ pc = "ensure_ws"
  /\ \E i, j \in 1..Len(wf) :
       /\ i < j
       /\ has_remote_input(task.wf_json[i]) /\ has_remote_input(task.wf_json[j])
       /\ held_url(task.wf_json[i]) = held_url(task.wf_json[j])
       /\ wf[i].inputs[input_field(wf[i])] = local_filename(held_url(task.wf_json[i]))
       /\ wf[j].inputs[input_field(wf[j])] = local_filename(held_url(task.wf_json[j]))

(***************************************************************************)
(* Properties of the dispatcher and the processors (specification Spec).   *)
(***************************************************************************)
IsTerminal(e) == e.status \in {"COMPLETED", "FAILED"}

Terminals(ev) == SelectSeq(ev, IsTerminal)

\* process_task has returned for a task it handed to a processor.
JobDone == pc = "fetch" /\ dispatch = "invoked"

\* C1: a processor is invoked for a job only if the workflow filter allowed
\* the workflow name process_task read from it; for a job the filter rejects
\* no processor is invoked, no status callback is sent and the consumer is
\* back at the fetch of its loop.
C1_FilterGate ==
  /\ processor /= "none"
       => is_workflow_allowed(allowed_workflows, task_workflow_name(task))
  /\ dispatch = "filtered"
       => /\ ~is_workflow_allowed(allowed_workflows, task_workflow_name(task))
          /\ processor = "none"
          /\ events = <<>>
          /\ requests = {}
          /\ pc = "fetch"

\* A faceswap job was rejected under the allow-list [comfyui_*].
C1_Witness ==
  /\ dispatch = "filtered"
  /\ allowed_workflows = << <<"comfyui_", "*">> >>
  /\ task_workflow_name(task) = WfFaceswap
  /\ pc = "fetch"

\* C2: when the health probe at the gate fails, no status callback of any
\* kind is sent for the job, in either mode.
C2_NoCallbackWhenUnavailable ==
  health = "down" => events = <<>>

\* C3: a job of the Workflow processor that ended COMPLETED or FAILED while a
\* callback URL is resolvable has exactly one terminal callback, the
\* processor's and the dispatcher's counted together.
C3_ExactlyOneTerminal ==
  ( /\ JobDone
    /\ processor = "comfyui"
    /\ outcome.kind /= "unavailable"
    /\ update_url(task.source_channel) /= None )
  => Len(Terminals(events)) = 1

\* C4: at the end of a job for which a PROCESSING callback was sent (the
\* plain report or a progress note), exactly one COMPLETED or FAILED callback
\* has been sent, after the first PROCESSING one.
C4_ProcessingThenOneTerminal ==
  ( /\ JobDone
    /\ \E i \in 1..Len(events) : events[i].status = "PROCESSING" )
  => /\ Len(Terminals(events)) = 1
     /\ \E i, j \in 1..Len(events) :
          i < j /\ events[i].status = "PROCESSING" /\ IsTerminal(events[j])

\* C8: after a failed health gate the Workflow processor makes no further
\* request for the job (the health probe is the only one), sends no status
\* callback, and returns None for SERVICE_UNAVAILABLE.
C8_GateStopsEverything ==
  health = "down"
  => /\ requests = {"system_stats"}
     /\ \A i \in 1..Len(events) : events[i].by /= "processor"
     /\ outcome = Unavailable
     /\ pc \in {"comfyui_report", "process_returned", "fetch"}
     /\ ret = -1

\* The gate failed for a graph with remote inputs and a LoRA node, and the
\* processor has returned.
C8_Witness ==
  /\ health = "down"
  /\ task.wf_json = GFull
  /\ pc = "process_returned"

\* C9: when a remote input of the graph could not be downloaded and a
\* callback URL is resolvable, the job ends with a FAILED callback of the
\* processor whose message holds every failed URL, and the graph is never
\* submitted.
C9_DownloadFailureFails ==
  ( /\ JobDone
    /\ processor = "comfyui"
    /\ health = "up"
    /\ collect_remote_urls(wf) /= <<>>
    /\ update_url(task.source_channel) /= None )
  => /\ "prompt" \notin requests
     /\ \E i \in 1..Len(events) :
          /\ events[i].by = "processor"
          /\ events[i].status = "FAILED"
          /\ \A u \in Range(collect_remote_urls(wf)) : Contains(events[i].msg, u)

\* C10: a job handed to a processor is reported COMPLETED only with a
\* non-empty URL list; when execution yields no result URL the processor
\* reports FAILED with 'No results generated.' and nobody reports COMPLETED.
C10_CompletedHasUrls ==
  dispatch = "invoked"
  => /\ \A i \in 1..Len(events) :
          events[i].status = "COMPLETED" => events[i].out /\ events[i].n > 0
     /\ ( /\ pc \in {"process_returned", "fetch"}
          /\ outcome.kind = "results"
          /\ outcome.n = 0 )
        => /\ \A i \in 1..Len(events) : events[i].status /= "COMPLETED"
           /\ update_url(task.source_channel) /= None
                => \E i \in 1..Len(events) :
                     Payload(events[i]) = Cb("processor", "FAILED", MsgNoResults, FALSE, 0)

\* Execution ended without a result URL and the processor reported it.
C10_Witness ==
  /\ pc = "process_returned"
  /\ outcome.kind = "results"
  /\ outcome.n = 0
  /\ "history" \in requests
  /\ \E i \in 1..Len(events) :
       Payload(events[i]) = Cb("processor", "FAILED", MsgNoResults, FALSE, 0)

(***************************************************************************)
(* Properties of the priority queue (specification SpecQueue).             *)
(***************************************************************************)
\* The priority of a lane: 1 is the highest.
LaneRank(lane) ==
  CASE lane = "gpu:tasks:vip" -> 1
    [] lane = "gpu:tasks:normal" -> 2
    [] lane = "gpu:tasks:guest" -> 3

SingleConsumer ==
  \A i, j \in 1..Len(returned) : returned[i].by = returned[j].by

\* J_guest, J_normal and J_vip were pushed, in this order, before the first
\* fetch_task call, and nothing else was pushed.
ThreeLanesLoaded ==
  /\ pushed = <<"gpu:tasks:guest", "gpu:tasks:normal", "gpu:tasks:vip">>
  /\ first_fetch_at = 3

\* C5: a job is returned from a lane only if, in that call, the pop of every
\* higher-priority lane came back empty; and with J_guest, J_normal, J_vip
\* enqueued before the first fetch a single consumer gets J_vip, J_normal,
\* J_guest in this order.
C5_PriorityOrder ==
  /\ \A i \in 1..Len(returned) :
       \A q \in DOMAIN lanes :
         LaneRank(q) < LaneRank(returned[i].lane) => q \in returned[i].empty
  /\ (ThreeLanesLoaded /\ SingleConsumer)
       => \A i \in 1..Len(returned) : returned[i].job = 4 - i

\* One consumer has fetched all of J_vip, J_normal, J_guest.
C5_Witness ==
  /\ ThreeLanesLoaded
  /\ SingleConsumer
  /\ Len(returned) = 3

\* C6: with consumers fetching concurrently no job is returned twice, and
\* every job returned was pushed, to the lane it came from.
C6_AtMostOnce ==
  /\ \A i, j \in 1..Len(returned) : i /= j => returned[i].job /= returned[j].job
  /\ \A i \in 1..Len(returned) :
       /\ returned[i].job \in 1..Len(pushed)
       /\ pushed[returned[i].job] = returned[i].lane

\* Two consumers, both inside fetch_task at once, have each got a job of the
\* same lane.
C6_Witness ==
  \E i, j \in 1..Len(returned) :
    /\ returned[i].by /= returned[j].by
    /\ returned[i].lane = returned[j].lane
    /\ \A c \in Consumers : qpc[c] > 0

\* C7: within a lane jobs come out oldest-first: of two jobs returned from
\* one lane the earlier-pushed is returned first, and a job is returned only
\* when nothing pushed to its lane before it is still queued.
C7_FifoWithinLane ==
  /\ \A i, j \in 1..Len(returned) :
       (i < j /\ returned[i].lane = returned[j].lane)
         => returned[i].job < returned[j].job
  /\ \A i \in 1..Len(returned) :
       \A k \in 1..Len(lanes[returned[i].lane]) :
         lanes[returned[i].lane][k] > returned[i].job

\* Two jobs of one lane were both queued, and both have been returned.
C7_Witness ==
  \E i, j \in 1..Len(returned) :
    /\ i < j
    /\ returned[i].lane = returned[j].lane
    /\ first_fetch_at >= returned[j].job

(***************************************************************************)
(* Properties of the harvest and of the status callbacks (specification    *)
(* Spec).                                                                  *)
(***************************************************************************)
\* An artifact was fetched from the engine and its upload yielded no URL.
UploadFailed ==
  \E i \in valid_upload_tasks(upload_tasks) :
    result_url(upload_tasks[i]) \notin Range(output_urls)

\* C11: when the upload of a harvested artifact failed, the Workflow
\* processor has returned and a callback URL is resolvable, the job's
\* terminal status is FAILED: no COMPLETED callback was sent and the
\* processor sent a FAILED one.
C11_UploadFailureFails ==
  ( /\ pc \in {"process_returned", "fetch"}
    /\ processor = "comfyui"
    /\ UploadFailed
    /\ update_url(task.source_channel) /= None )
  => /\ \A i \in 1..Len(events) : events[i].status /= "COMPLETED"
     /\ \E i \in 1..Len(events) :
          events[i].by = "processor" /\ events[i].status = "FAILED"

\* C18: every URL of the output list is the URL of an Upload Task whose
\* bytes were received from /view, an Upload Task whose /view fetch failed
\* contributes no URL, and a COMPLETED callback of the Workflow processor
\* carries exactly the URLs of that list.
C18_UrlsFromFetchedFiles ==
  /\ \A k \in 1..Len(output_urls) :
       \E i \in 1..Len(upload_tasks) :
         upload_tasks[i].file_data /\ output_urls[k] = result_url(upload_tasks[i])
  /\ \A i \in 1..Len(upload_tasks) :
       ~upload_tasks[i].file_data
         => result_url(upload_tasks[i]) \notin Range(output_urls)
  /\ \A j \in 1..Len(events) :
       ( /\ processor = "comfyui"
         /\ events[j].by = "processor"
         /\ events[j].status = "COMPLETED" )
         => events[j].n = Len(output_urls)

\* A job was reported COMPLETED with the URL of one artifact while the /view
\* fetch of another artifact had failed.
C18_Witness ==
  /\ pc = "process_returned"
  /\ \E j \in 1..Len(events) :
       events[j].by = "processor" /\ events[j].status = "COMPLETED"
  /\ \E i \in 1..Len(upload_tasks) : ~upload_tasks[i].file_data
  /\ output_urls /= <<>>

(***************************************************************************)
(* Properties of collect_workflow_results (specification SpecHarvest).     *)
(***************************************************************************)
\* int() of the text of a small natural number.
int(tok) == CHOOSE n \in 0..9 : str(n) = tok

\* The sequence number printed in a destination path, just before the
\* extension.
path_sequence(path) == int(path[Len(path) - 1])

\* C17: the Upload Tasks harvested for one job have pairwise distinct
\* destination paths, and the sequence number in the path strictly increases
\* in harvest order, whatever nodes contributed.
C17_DistinctPaths ==
  \A i, j \in 1..Len(upload_tasks) :
    i < j => /\ upload_tasks[i].path /= upload_tasks[j].path
             /\ path_sequence(upload_tasks[i].path) < path_sequence(upload_tasks[j].path)

\* Two nodes of different classes contributed at least three Upload Tasks,
\* one of them built from filename_prefix alone.
C17_Witness ==
  /\ pc = "collected"
  /\ Len(upload_tasks) >= 3
  /\ \E i, j \in 1..Len(upload_tasks) :
       /\ upload_tasks[i].node_id /= upload_tasks[j].node_id
       /\ upload_tasks[i].type /= upload_tasks[j].type
  /\ \E i \in 1..Len(upload_tasks) :
       upload_tasks[i].filename[1] = <<"out", "00001">>

(***************************************************************************)
(* Properties of the wait for completion (specification SpecLive).         *)
(***************************************************************************)
\* The turn of the loop in which ws.recv() timed out: the socket is open and
\* the clock moves by the socket timeout.
RecvTimedOut ==
  /\ pc = "wait"
  /\ clock <= timeout
  /\ client_cache[cache_key(task)].ws_open
  /\ client_cache' = client_cache
  /\ clock' = clock + timeout + 1

\* C12: the wait always ends; the turn in which a receive timed out leaves
\* the loop running; a turn begun after the deadline raises the timeout
\* error, which is handled as a failure and never as SERVICE_UNAVAILABLE;
\* and the job then ends with the processor's FAILED callback carrying the
\* timeout message and with no COMPLETED callback.
C12_WaitTerminates ==
  /\ (pc = "wait") ~> (pc /= "wait")
  /\ [][ /\ RecvTimedOut => pc' = "wait"
         /\ (pc = "wait" /\ clock > timeout)
              => /\ pc' = "comfyui_report"
                 /\ outcome' = Outcome("raised", 0, ExcTimedOut)
         /\ (pc = "comfyui_report" /\ outcome.msg = ExcTimedOut)
              => /\ ret' = -1
                 /\ \A i \in 1..Len(events') : events'[i].status /= "COMPLETED"
                 /\ update_url(task.source_channel) /= None
                      => events' = Append(events,
                                          Post(update_url(task.source_channel) \o UpdatePath,
                                               Cb("processor", "FAILED", ExcTimedOut,
                                                  FALSE, 0)))
     ]_vars

\* C12 as stated: once the deadline has elapsed without the terminal marker
\* the wait raises the timeout error, so the wait never returns normally
\* later than the deadline.
C12_DeadlineEnforced ==
  pc = "harvest" => clock <= timeout

\* A job whose wait ran past the deadline after a receive timeout has been
\* reported FAILED with the timeout message.
C12_Witness ==
  /\ pc = "process_returned"
  /\ outcome = Outcome("raised", 0, ExcTimedOut)
  /\ events /= <<>>
  /\ Payload(events[Len(events)]) = Cb("processor", "FAILED", ExcTimedOut, FALSE, 0)

(***************************************************************************)
(* Properties of failing status callbacks (specification SpecCallbacks).   *)
(***************************************************************************)
\* The statuses of the terminal callbacks the processor sent.
ProcessorTerminals ==
  [ i \in 1..Len(SelectSeq(events, LAMBDA e : e.by = "processor" /\ IsTerminal(e))) |->
      SelectSeq(events, LAMBDA e : e.by = "processor" /\ IsTerminal(e))[i].status ]

DispatcherPosts == SelectSeq(events, LAMBDA e : e.by = "dispatcher")

C14_PerJobCallbackUrl ==
  ( /\ consumer_mode = "redis_queue"
    /\ pc \in {"process_returned", "fetch"}
    /\ dispatch = "invoked"
    /\ Truthy(callback_url(task)) )
  => /\ \E i \in 1..Len(DispatcherPosts) : DispatcherPosts[i].status = "PROCESSING"
     /\ \A i \in 1..Len(DispatcherPosts) : DispatcherPosts[i].url = callback_url(task)

(***************************************************************************)
(* C15: for the Workflow and for the Face-Swap processor the target of the *)
(* status callbacks is chosen by source_channel: an http(s) base gives     *)
(* <base>/api/comm/task/update, redis_queue gives TASK_CALLBACK_URL (the   *)
(* callback is skipped when that is unset, and the job does not fail),     *)
(* anything else gives the default producer API base.                      *)
(***************************************************************************)
ProcessorPosts == SelectSeq(events, LAMBDA e : e.by = "processor")

C15_TargetBySourceChannel ==
  ( /\ pc \in {"process_returned", "fetch"}
    /\ dispatch = "invoked"
    /\ processor \in {"comfyui", "facefusion"} )
  => LET base == update_url(task.source_channel)
     IN  IF base = None
         THEN ProcessorPosts = <<>>
         ELSE /\ \A i \in 1..Len(ProcessorPosts) :
                   ProcessorPosts[i].url = base \o UpdatePath
              /\ ret > 0 =>
                   \E i \in 1..Len(ProcessorPosts) :
                      ProcessorPosts[i].status = "COMPLETED"

(***************************************************************************)
(* C16: of two consecutive progress callbacks sent for one job, the second *)
(* is sent at least 3 seconds after the first, or it reports a progress    *)
(* value/max of at least 90%.                                              *)
(***************************************************************************)
IsProgress(e) == e.status = "PROCESSING" /\ StartsWith(e.msg, <<"progress: ">>)

ProgressPosts == SelectSeq(events, IsProgress)

\* The value and max a progress callback reports, read back from its text.
reported(e) == CHOOSE p \in ProgressEvents : MsgProgress(p[3]) = e.msg

\* last_progress_time holds the time the previous progress callback was sent
\* at, and takes the time this one is sent at.
C16_ProgressThrottled ==
  [][ ( /\ pc = "wait"
        /\ Len(events') = Len(events) + 1
        /\ IsProgress(events'[Len(events')])
        /\ ProgressPosts /= <<>> )
      => LET p == reported(events'[Len(events')])
         IN  \/ last_progress_time' - last_progress_time >= 3
             \/ 10 * p[1] >= 9 * p[2] ]_vars

\* Two progress callbacks were sent in the same second: 50% first, and then
\* 95%, which the override lets through.
C16_Witness ==
  /\ pc = "wait"
  /\ clock = 0
  /\ Len(ProgressPosts) = 2
  /\ reported(ProgressPosts[1])[1] = 50
  /\ reported(ProgressPosts[2])[1] = 95
  /\ last_progress_time = current_time(0)

\* C30: once the graph of a first job has been submitted, the processor's
\* PROCESSING callback is among the callbacks sent (where the processor has
\* somewhere to send it); and when the processor's last callback of the job
\* is COMPLETED, its first is PROCESSING.
C30_ProcessingBeforeSubmit ==
  /\ (pc = "wait_entry" /\ jobs = 1 /\ update_url(task.source_channel) /= None) =>
        \E i \in 1..Len(events) :
           Payload(events[i]) = Cb("processor", "PROCESSING", Empty, FALSE, 0)
  /\ (pc = "process_returned" /\ jobs = 1 /\ ProcessorPosts /= <<>>
       /\ ProcessorPosts[Len(ProcessorPosts)].status = "COMPLETED") =>
        ProcessorPosts[1].status = "PROCESSING"

\* C28: the wait has returned normally only with an executing message of the
\* awaited prompt_id and a null node as the last message received; any other
\* message received leaves the loop waiting.
C28_EndsOnlyOnMarker ==
  /\ pc = "harvest" => ws_msg = WsMessage("executing", PromptId, None)
  /\ ws_msg \notin {NoMsg, WsMessage("executing", PromptId, None)} => pc = "wait"

\* The wait of a first job returned after a progress message had been
\* received and reported.
C28_Witness ==
  /\ pc = "harvest"
  /\ jobs = 1
  /\ ws_msg = WsMessage("executing", PromptId, None)
  /\ \E i \in 1..Len(events) : IsProgress(events[i])

(***************************************************************************)
(* C19: a job whose task id starts with test_task_ or whose workflow name  *)
(* is test_workflow is marked COMPLETED with a synthetic result by the     *)
(* dispatcher, and no processor is invoked for it.                         *)
(***************************************************************************)
C19_TestJobsCompleted ==
  ( /\ pc = "fetch"
    /\ dispatch /= ""
    /\ admitted(task)
    /\ is_test_task(task)
    \* a producer to tell is known: the task's source, or TASK_CALLBACK_URL
    /\ consumer_mode = "http" \/ Truthy(TASK_CALLBACK_URL) )
  => /\ processor = "none"
     /\ requests = {}
     /\ Len(events) = 1
     /\ events[1].by = "dispatcher"
     /\ events[1].status = "COMPLETED"

\* The part of C19 the dispatcher keeps: no processor is chosen and no
\* engine request is made for a test job.
C19_NoProcessorInvoked ==
  ( /\ pc = "fetch"
    /\ dispatch /= ""
    /\ admitted(task)
    /\ is_test_task(task) )
  => /\ dispatch = "test"
     /\ processor = "none"
     /\ requests = {}

(***************************************************************************)
(* The processor registry on its own: get_processor applied to the         *)
(* workflow names process_task may hand it.                                *)
(***************************************************************************)
MaxNameLen == 2

\* Pieces of workflow names; no concatenation of them spells another.
NameTokens ==
  { "faceswap", "face_swap", "FaceSwap", "comfyui_", "basic_generation",
    "text_to_image", "inpainting", "test_workflow", "default", "x" }

\* The names of the model: the empty name and every name of up to
\* MaxNameLen pieces.
RegistryNames ==
  UNION { [1..n -> NameTokens] : n \in 0..MaxNameLen }

\* ProcessorRegistry._initialize_processors: the registered processors.
processors == {"comfyui", "facefusion"}

\* A task with the given workflow name; None is a task without one.
InitRegistry ==
  /\ consumer_mode = "http"
  /\ TASK_CALLBACK_URL = Empty
  /\ allowed_workflows = << <<"*">> >>
  /\ callbacks_ok = TRUE
  /\ \E name \in RegistryNames \cup {None} :
       /\ task = [RawTask(IdT1, name, None, None, GPlain)
                    EXCEPT !.source_channel = ApiBase]
  /\ pc = "get_processor"
  /\ jobs = 0
  /\ events = <<>>
  /\ requests = {}
  /\ processor = "none"
  /\ dispatch = ""
  /\ health = ""
  /\ outcome = NoOutcome
  /\ ret = -1
  /\ wf = GEmpty
  /\ client_cache = <<>>
  /\ lora_cache_loaded = FALSE
  /\ lora_cache = EmptyCache
  /\ ws_msg = NoMsg
  /\ gets = <<>>
  /\ download_results = <<>>
  /\ dl = BatchStart
  /\ engine_loras = EngineLoras
  /\ task_start_times = {}
  /\ recvs = 0
  /\ clock = 0
  /\ last_progress_time = 0
  /\ history_outputs = <<>>
  /\ upload_tasks = <<>>
  /\ output_urls = <<>>
  /\ fetch_result = "task"
  /\ idle_ticks = 0
  /\ callback_time = 0
  /\ QueueIdle

\* process_task lines 208-213: the registry picks the processor; a type
\* that is not registered would end the job without one.
GetProcessor ==
  /\ pc = "get_processor"
  /\ processor' = get_processor(task_workflow_name(task))
  /\ dispatch' = (IF get_processor(task_workflow_name(task)) \in processors
                  THEN "invoked" ELSE "noprocessor")
  /\ pc' = "dispatched"
  /\ UNCHANGED queue_vars
  /\ UNCHANGED producer_vars
  /\ UNCHANGED loop_vars
  /\ UNCHANGED lora_vars
  /\ UNCHANGED wait_vars
  /\ UNCHANGED callback_vars
  /\ UNCHANGED harvest_vars
  /\ UNCHANGED << consumer_mode, TASK_CALLBACK_URL, allowed_workflows, task, jobs,
                  events, requests, health, outcome, ret, wf, client_cache,
                  lora_cache_loaded, task_start_times, recvs, clock,
                  last_progress_time >>

NextRegistry == GetProcessor

SpecRegistry == InitRegistry /\ [][NextRegistry]_vars

(***************************************************************************)
(* C20: the registry maps faceswap and the legacy spelling face_swap to    *)
(* the Face-Swap processor and every other name, the empty or missing one  *)
(* included, to the Workflow processor; every name maps to exactly one     *)
(* registered processor.                                                   *)
(***************************************************************************)
C20_RegistryRouting ==
  pc = "dispatched"
  => /\ processor \in processors
     /\ dispatch = "invoked"
     /\ processor = (IF task.workflow \in {<<"faceswap">>, <<"face_swap">>}
                     THEN "facefusion" ELSE "comfyui")

\* What the registry does: only the exact name faceswap goes to the
\* Face-Swap processor.
C20_OnlyFaceswap ==
  pc = "dispatched"
  => /\ processor \in processors
     /\ dispatch = "invoked"
     /\ processor = (IF task.workflow = WfFaceswap THEN "facefusion" ELSE "comfyui")

(***************************************************************************)
(* core/redis_task_manager.py: RedisTaskManager, one Redis command or one  *)
(* pipeline (MULTI/EXEC) per step.                                         *)
(***************************************************************************)
\* The filters a caller may pass as workflow_names; <<>> is no filter.
Filters == { <<>> } \cup { <<w>> : w \in ProducerWorkflows }

Names(workflow_names) == { workflow_names[i] : i \in 1..Len(workflow_names) }

rpush(list, x) == Append(list, x)

\* _save_task_to_redis: the hash with status PENDING, the id on the general
\* list and on the list of its workflow.
_save_task_to_redis(workflow_name) ==
  LET task_id == Len(redis_tasks) + 1
  IN  /\ redis_tasks' = Append(redis_tasks,
                               [status |-> "PENDING", workflow |-> workflow_name])
      /\ redis_lists' = [redis_lists EXCEPT
                           ![pending] = rpush(@, task_id),
                           ![pending_of(workflow_name)] = rpush(@, task_id)]

\* _update_task_status_internal: the status, and for COMPLETED and FAILED
\* the release of the task lock.
_update_task_status_internal(task_id, status) ==
  /\ redis_tasks' = [redis_tasks EXCEPT ![task_id].status = status]
  /\ redis_locks' = (IF status \in {"COMPLETED", "FAILED"}
                     THEN redis_locks \ {task_id} ELSE redis_locks)

\* create_task as the task API calls it.
create_task ==
  /\ Len(redis_tasks) < MaxTasks
  /\ \E workflow_name \in ProducerWorkflows : _save_task_to_redis(workflow_name)
  /\ UNCHANGED << redis_locks, callers >>
  /\ UNCHANGED pipeline_vars
  /\ UNCHANGED http_vars
  /\ UNCHANGED queue_vars

\* get_next_task lines 187-196: the lists to poll.
get_next_task(c) ==
  /\ callers[c].pc = "idle"
  /\ callers[c].holds = NoId
  /\ \E workflow_names \in Filters :
       callers' = [callers EXCEPT ![c] =
         [@ EXCEPT !.pc = "pop",
                   !.workflow_names = workflow_names,
                   !.queues = [i \in 1..Len(workflow_names) |->
                                 pending_of(workflow_names[i])] \o <<pending>>]]
  /\ UNCHANGED << redis_lists, redis_locks, redis_tasks >>
  /\ UNCHANGED pipeline_vars
  /\ UNCHANGED http_vars
  /\ UNCHANGED queue_vars

\* get_next_task lines 199-208: the next list, exists and lpop.
Pop(c) ==
  /\ callers[c].pc = "pop"
  /\ IF callers[c].queues = <<>>
     THEN /\ callers' = [callers EXCEPT ![c].pc = "fallback"]
          /\ UNCHANGED redis_lists
     ELSE LET queue_key == Head(callers[c].queues)
          IN  IF redis_lists[queue_key] = <<>>
              THEN /\ callers' = [callers EXCEPT ![c].queues = Tail(@)]
                   /\ UNCHANGED redis_lists
              ELSE /\ callers' = [callers EXCEPT ![c] =
                         [@ EXCEPT !.pc = "lock",
                                   !.queues = Tail(@),
                                   !.queue_key = queue_key,
                                   !.task_id = Head(redis_lists[queue_key])]]
                   /\ redis_lists' = [redis_lists EXCEPT ![queue_key] = Tail(@)]
  /\ UNCHANGED << redis_locks, redis_tasks >>
  /\ UNCHANGED pipeline_vars
  /\ UNCHANGED http_vars
  /\ UNCHANGED queue_vars

\* get_next_task lines 212-218: SET lock:task:<id> NX EX lock_timeout.
Lock(c) ==
  /\ callers[c].pc = "lock"
  /\ IF callers[c].task_id \in redis_locks
     THEN /\ callers' = [callers EXCEPT ![c].pc = "pop"]
          /\ UNCHANGED redis_locks
     ELSE /\ callers' = [callers EXCEPT ![c].pc = "check"]
          /\ redis_locks' = redis_locks \cup {callers[c].task_id}
  /\ UNCHANGED << redis_lists, redis_tasks >>
  /\ UNCHANGED pipeline_vars
  /\ UNCHANGED http_vars
  /\ UNCHANGED queue_vars

\* get_next_task lines 221-242: the task is read; one whose workflow the
\* filter does not name goes back to the list, any other is marked FETCHED
\* and returned.
Check(c) ==
  /\ callers[c].pc = "check"
  /\ LET task_id == callers[c].task_id
         workflow_names == callers[c].workflow_names
     IN  IF workflow_names /= <<>>
            /\ redis_tasks[task_id].workflow \notin Names(workflow_names)
         THEN /\ redis_lists' = [redis_lists EXCEPT
                                   ![callers[c].queue_key] = rpush(@, task_id)]
              /\ callers' = [callers EXCEPT ![c].pc = "unlock"]
              /\ UNCHANGED << redis_tasks, redis_locks >>
         ELSE /\ _update_task_status_internal(task_id, "FETCHED")
              /\ callers' = [callers EXCEPT ![c] = [IdleCaller EXCEPT !.holds = task_id]]
              /\ UNCHANGED redis_lists
  /\ UNCHANGED pipeline_vars
  /\ UNCHANGED http_vars
  /\ UNCHANGED queue_vars

\* get_next_task line 231: the lock of the task put back is deleted.
Unlock(c) ==
  /\ callers[c].pc = "unlock"
  /\ redis_locks' = redis_locks \ {callers[c].task_id}
  /\ callers' = [callers EXCEPT ![c].pc = "pop"]
  /\ UNCHANGED << redis_lists, redis_tasks >>
  /\ UNCHANGED pipeline_vars
  /\ UNCHANGED http_vars
  /\ UNCHANGED queue_vars

\* get_next_task lines 246-252 and 264-267: no list gave a task.  A caller
\* with a filter creates a task of its own when the general list is short;
\* any other gets None.
Fallback(c) ==
  /\ callers[c].pc = "fallback"
  /\ IF callers[c].workflow_names /= <<>> /\ Len(redis_lists[pending]) < 5
        /\ Len(redis_tasks) < MaxTasks
     THEN /\ \E workflow_name \in Names(callers[c].workflow_names) :
               _save_task_to_redis(workflow_name)
          /\ callers' = [callers EXCEPT ![c] =
                [@ EXCEPT !.pc = "mark", !.task_id = Len(redis_tasks) + 1]]
     ELSE /\ callers' = [callers EXCEPT ![c] = IdleCaller]
          /\ UNCHANGED << redis_lists, redis_tasks >>
  /\ UNCHANGED redis_locks
  /\ UNCHANGED pipeline_vars
  /\ UNCHANGED http_vars
  /\ UNCHANGED queue_vars

\* get_next_task lines 253-258: the new task is marked FETCHED.
Mark(c) ==
  /\ callers[c].pc = "mark"
  /\ _update_task_status_internal(callers[c].task_id, "FETCHED")
  /\ callers' = [callers EXCEPT ![c].pc = "newlock"]
  /\ UNCHANGED redis_lists
  /\ UNCHANGED pipeline_vars
  /\ UNCHANGED http_vars
  /\ UNCHANGED queue_vars

\* get_next_task lines 260-262: SET NX for the new task, its answer unread,
\* and the task is returned.
NewLock(c) ==
  /\ callers[c].pc = "newlock"
  /\ redis_locks' = redis_locks \cup {callers[c].task_id}
  /\ callers' = [callers EXCEPT ![c] = [IdleCaller EXCEPT !.holds = callers[c].task_id]]
  /\ UNCHANGED << redis_lists, redis_tasks >>
  /\ UNCHANGED pipeline_vars
  /\ UNCHANGED http_vars
  /\ UNCHANGED queue_vars

\* update_task_status as the worker that holds the task calls it; a
\* terminal status ends its hold.
update_task_status(c) ==
  /\ callers[c].pc = "idle"
  /\ callers[c].holds /= NoId
  /\ \E status \in {"PROCESSING", "COMPLETED", "FAILED"} :
       /\ _update_task_status_internal(callers[c].holds, status)
       /\ callers' = [callers EXCEPT ![c].holds =
                        IF status = "PROCESSING" THEN @ ELSE NoId]
  /\ UNCHANGED redis_lists
  /\ UNCHANGED pipeline_vars
  /\ UNCHANGED http_vars
  /\ UNCHANGED queue_vars

\* Redis drops a lock key lock_timeout (300) seconds after it was set: a
\* get_next_task call is over long before, a job may still be running.
LockExpires ==
  /\ \E task_id \in redis_locks :
       /\ \E c \in Callers : callers[c].pc = "idle" /\ callers[c].holds = task_id
       /\ redis_locks' = redis_locks \ {task_id}
  /\ UNCHANGED << redis_lists, redis_tasks, callers >>
  /\ UNCHANGED pipeline_vars
  /\ UNCHANGED http_vars
  /\ UNCHANGED queue_vars

InitProducer == PipelineIdle /\ QueueIdle

NextProducer ==
  \/ create_task
  \/ LockExpires
  \/ \E c \in Callers :
       \/ get_next_task(c)
       \/ Pop(c)
       \/ Lock(c)
       \/ Check(c)
       \/ Unlock(c)
       \/ Fallback(c)
       \/ Mark(c)
       \/ NewLock(c)
       \/ update_task_status(c)

SpecProducer == InitProducer /\ [][NextProducer]_vars

(***************************************************************************)
(* services/image_service.py: download_images_batch over the URLs that     *)
(* _preprocess_workflow collected, one requests.get at a time.             *)
(***************************************************************************)
\* download_image line 66: max_retries = 3.
download_max_retries == 3

\* The batch: the remote URLs of the graph with two remote inputs.
image_urls == collect_remote_urls(GFull)

\* What one requests.get may end with: an HTTP status, or 0 for a
\* connection error or timeout.
Answers == {200, 404, 429, 503, 0}

\* The statuses raise_for_status raises for.
raises(status) == status = 0 \/ status >= 400

Get(url, status) == [url |-> url, status |-> status]

\* One turn of download_image's retry loop (lines 69-85) inside
\* download_images_batch's loop (lines 127-134): an answer without error ends
\* the download and maps the URL; an error on the last attempt leaves the URL
\* out; any other error is followed by another attempt.
download_image ==
  /\ dl.i <= Len(image_urls)
  /\ \E status \in Answers :
       /\ gets' = Append(gets, Get(image_urls[dl.i], status))
       /\ IF ~raises(status)
          THEN /\ download_results' =
                    (image_urls[dl.i] :> local_filename(image_urls[dl.i])) @@ download_results
               /\ dl' = [i |-> dl.i + 1, attempt |-> 0]
          ELSE IF dl.attempt = download_max_retries
          THEN /\ dl' = [i |-> dl.i + 1, attempt |-> 0]
               /\ UNCHANGED download_results
          ELSE /\ dl' = [dl EXCEPT !.attempt = @ + 1]
               /\ UNCHANGED download_results
  /\ UNCHANGED << pc, task, jobs, events, consumer_mode, TASK_CALLBACK_URL,
                  allowed_workflows, requests, processor, dispatch, health, outcome,
                  ret, wf, client_cache, lora_cache_loaded, task_start_times, recvs,
                  clock, last_progress_time, lora_cache, engine_loras >>
  /\ UNCHANGED queue_vars
  /\ UNCHANGED producer_vars
  /\ UNCHANGED loop_vars
  /\ UNCHANGED wait_vars
  /\ UNCHANGED callback_vars
  /\ UNCHANGED harvest_vars

InitDownload == PipelineIdle /\ QueueIdle

NextDownload == download_image

SpecDownload == InitDownload /\ [][NextDownload]_vars

\* 404 and every other 4xx except 408 and 429.
non_retryable(status) == status \in 400..499 /\ status \notin {408, 429}

GetsOf(url) == SelectSeq(gets, LAMBDA g : g.url = url)

\* C34: a request answered with a non-retryable status is the last request
\* for its URL, which is not in the batch mapping; no URL is requested more
\* than once plus three retries.
C34_NoRetryOn4xx ==
  \A k \in 1..Len(image_urls) :
    LET url == image_urls[k] IN
      /\ \A j \in 1..Len(GetsOf(url)) :
            non_retryable(GetsOf(url)[j].status) =>
              (j = Len(GetsOf(url)) /\ url \notin DOMAIN download_results)
      /\ Len(GetsOf(url)) <= 1 + download_max_retries

(***************************************************************************)
(* HTTP mode: the workers poll the fetch route of the in-memory producer.  *)
(***************************************************************************)
\* TaskManager.get_next_task without workflow_names (fetch_task_comm passes
\* none, whatever workflowNames the worker put in its query): the queue with
\* a default task created when it is empty.
refilled(queue, storage) ==
  IF queue = <<>> THEN << Len(storage) + 1 >> ELSE queue

refilled_storage(queue, storage) ==
  IF queue = <<>> THEN Append(storage, HttpTask(WfBasicGeneration, "PENDING"))
  ELSE storage

\* process_task lines 169-173: the gate returns None and nothing is sent to
\* the producer, whose queue stays as the fetch left it.
after_rejection(queue, task_id) == queue

\* GET /api/comm/task/fetch by worker w, then the gate of its process_task.
fetch_task_comm(w) ==
  /\ in_hand[w] = NoId
  /\ task_queue /= <<>> \/ Len(tasks_storage) < initial_tasks + MaxCreated
  /\ LET queue == refilled(task_queue, tasks_storage)
         storage == refilled_storage(task_queue, tasks_storage)
         task_id == Head(queue)
         allowed == is_workflow_allowed(HttpAllowed(w), storage[task_id].workflow)
     IN  /\ tasks_storage' = [storage EXCEPT ![task_id].status = "FETCHED"]
         /\ handouts' = handouts \cup {<< task_id, w >>}
         /\ task_queue' = (IF allowed THEN Tail(queue)
                           ELSE after_rejection(Tail(queue), task_id))
         /\ in_hand' = (IF allowed THEN [in_hand EXCEPT ![w] = task_id] ELSE in_hand)
  /\ UNCHANGED << redis_lists, redis_locks, redis_tasks, callers >>
  /\ UNCHANGED pipeline_vars
  /\ UNCHANGED queue_vars

\* POST /api/comm/task/update with the terminal status of the worker's job.
update_task_comm(w) ==
  /\ in_hand[w] /= NoId
  /\ \E status \in {"COMPLETED", "FAILED"} :
       tasks_storage' = [tasks_storage EXCEPT ![in_hand[w]].status = status]
  /\ in_hand' = [in_hand EXCEPT ![w] = NoId]
  /\ UNCHANGED << task_queue, handouts >>
  /\ UNCHANGED << redis_lists, redis_locks, redis_tasks, callers >>
  /\ UNCHANGED pipeline_vars
  /\ UNCHANGED queue_vars

InitHttp == PipelineIdle /\ QueueIdle

NextHttp == \E w \in HttpWorkers : fetch_task_comm(w) \/ update_task_comm(w)

\* Every worker keeps polling, and a job in hand is reported.
SpecHttp ==
  /\ InitHttp
  /\ [][NextHttp]_vars
  /\ \A w \in HttpWorkers : WF_vars(fetch_task_comm(w)) /\ WF_vars(update_task_comm(w))

permits(w, task_id) ==
  /\ task_id \in 1..Len(tasks_storage)
  /\ is_workflow_allowed(HttpAllowed(w), tasks_storage[task_id].workflow)

C21_OneHolderPerTask ==
  \A c1, c2 \in Callers :
     (c1 /= c2 /\ callers[c1].holds /= NoId) => callers[c1].holds /= callers[c2].holds

(***************************************************************************)
(* C22: at most one job is in flight per agent process: the consumer loop  *)
(* never fetches the next job before process_task for the current job has  *)
(* returned.                                                               *)
(***************************************************************************)
\* process_task has returned for the task in flight, or none was fetched yet.
ProcessTaskReturned ==
  /\ pc = "fetch"
  /\ jobs = 0 \/ dispatch \in {"noid", "filtered", "test", "invoked"}
  /\ dispatch = "invoked" => processor \in {"comfyui", "facefusion"}

C22_OneJobInFlight ==
  [][ jobs' /= jobs => (ProcessTaskReturned /\ jobs' = jobs + 1 /\ pc' = "process_task") ]_vars

\* A second job has just been fetched, after process_task returned for the
\* first.
C22_Witness ==
  /\ jobs = 2
  /\ pc = "process_task"
  /\ dispatch = ""
  /\ events = <<>>

(***************************************************************************)
(* consumer/task_consumer.py: the ticks of the loop that yield no job.     *)
(***************************************************************************)
\* Why a fetch_task call may come back without a job: the source cannot be
\* reached, it answers with an HTTP error, its answer cannot be read (not
\* JSON, not a dict, not successful, a task without id), or it has no job.
FetchFailures == {"connection_error", "http_error", "malformed", "empty"}

Mut_after_no_job == "terminated"

\* _try_fetch_from_url, _fetch_from_redis_queue and QueueConsumer.fetch_task
\* catch every Exception and return None; TaskConsumer.start then sleeps and
\* goes round its loop.
after_no_job == "fetch"

\* One tick of TaskConsumer.start whose fetch_task yields None.
FetchNone ==
  /\ pc = "fetch"
  /\ \E why \in FetchFailures :
       /\ consumer_mode = "redis_queue" => why /= "http_error"
       /\ fetch_result' = why
  /\ idle_ticks' = 1 - idle_ticks
  /\ pc' = after_no_job
  /\ UNCHANGED queue_vars
  /\ UNCHANGED producer_vars
  /\ UNCHANGED lora_vars
  /\ UNCHANGED wait_vars
  /\ UNCHANGED callback_vars
  /\ UNCHANGED harvest_vars
  /\ UNCHANGED << consumer_mode, TASK_CALLBACK_URL, allowed_workflows, task, jobs,
                  events, requests, processor, dispatch, health, outcome, ret, wf,
                  client_cache, lora_cache_loaded, task_start_times, recvs, clock,
                  last_progress_time >>

\* KeyboardInterrupt or cancellation ends start(); start_consumer then calls
\* stop().
Interrupt ==
  /\ pc = "fetch"
  /\ pc' = "stopped"
  /\ UNCHANGED queue_vars
  /\ UNCHANGED producer_vars
  /\ UNCHANGED callback_vars
  /\ UNCHANGED harvest_vars
  /\ UNCHANGED loop_vars
  /\ UNCHANGED lora_vars
  /\ UNCHANGED wait_vars
  /\ UNCHANGED << consumer_mode, TASK_CALLBACK_URL, allowed_workflows, task, jobs,
                  events, requests, processor, dispatch, health, outcome, ret, wf,
                  client_cache, lora_cache_loaded, task_start_times, recvs, clock,
                  last_progress_time >>

\* A worker whose allow-list leaves it the Face-Swap and the test jobs.
InitFetch ==
  /\ Init
  /\ allowed_workflows = << <<"faceswap">>, <<"test_workflow">> >>
  /\ TASK_CALLBACK_URL = CallbackBase

NextFetch ==
  \/ FetchTask
  \/ FetchNone
  \/ Interrupt
  \/ ProcessTask
  \/ FaceFusionProcess
  \/ DispatchReport

\* The event loop runs the consumer's coroutine whenever it can go on.
SpecFetch == InitFetch /\ [][NextFetch]_vars /\ WF_vars(FetchTask \/ FetchNone)

(***************************************************************************)
(* C23: a connection error, an HTTP error or a malformed response from a   *)
(* source during fetch never ends the consumer loop: the fetch yields no   *)
(* job, and as long as the consumer is running the loop fetches again on   *)
(* a later tick.                                                           *)
(***************************************************************************)
C23_FetchErrorsKeepLoop ==
  /\ [][ fetch_result' \in FetchFailures /\ fetch_result' /= "empty"
         /\ << fetch_result, idle_ticks >> /= << fetch_result', idle_ticks' >>
         => /\ pc' = "fetch"
            /\ task' = task /\ jobs' = jobs /\ events' = events ]_vars
  /\ \A b \in {0, 1} :
       (fetch_result \in FetchFailures /\ fetch_result /= "empty" /\ idle_ticks = b)
         ~> (idle_ticks /= b \/ fetch_result = "task" \/ pc = "stopped")

\* After a job, two ticks in a row yielded no job, the second on a
\* connection error, and the loop is about to fetch again.
C23_Witness ==
  /\ jobs = 1
  /\ pc = "fetch"
  /\ fetch_result = "connection_error"
  /\ idle_ticks = 0

(***************************************************************************)
(* consumer/task_schema.py: normalize_queue_task on the dicts the queue    *)
(* may hold.  A dict is a function on the keys it has; the operator of the *)
(* same name above is its projection on the keys the pipeline reads.       *)
(***************************************************************************)
EmptyDict == <<>>

\* d.get(k) for a key with a text value.
get(d, k) == IF k \in DOMAIN d THEN d[k] ELSE None

\* d.get("params", {}).get(k)
params_get(d, k) ==
  IF "params" \in DOMAIN d THEN get(d["params"], k) ELSE None

Mut_wrap_params(params) == [input_data |-> params]

\* normalize_queue_task lines 108-111: parameters in the old format, given
\* without input_data, are put under it.
wrap_params(params) ==
  IF "input_data" \notin DOMAIN params THEN [input_data |-> params] ELSE params

\* normalize_queue_task, `now` being datetime.utcnow().isoformat().
normalize_queue_task_dict(raw_task, now) ==
  LET task_id == Or(get(raw_task, "taskId"), Or(get(raw_task, "task_id"),
                                                get(raw_task, "id")))
      workflow ==
        Or(get(raw_task, "workflowName"),
           Or(get(raw_task, "workflow"),
              Or(get(raw_task, "workflow_name"),
                 Or(params_get(raw_task, "workflowName"),
                    Or(params_get(raw_task, "workflow_name"), WfDefault)))))
      params == wrap_params(IF "params" \in DOMAIN raw_task
                            THEN raw_task["params"] ELSE EmptyDict)
      callback_url_ ==
        Or(get(raw_task, "callbackUrl"),
           Or(get(raw_task, "callback_url"), params_get(raw_task, "callbackUrl")))
  IN  [taskId |-> task_id,
       userId |-> Or(get(raw_task, "userId"), get(raw_task, "user_id")),
       priority |-> IF "priority" \in DOMAIN raw_task THEN raw_task["priority"]
                    ELSE <<"normal">>,
       workflow |-> workflow,
       workflowName |-> workflow,
       params |-> params,
       callbackUrl |-> callback_url_,
       createdAt |-> Or(get(raw_task, "createdAt"), Or(get(raw_task, "created_at"), now)),
       _raw |-> raw_task]

\* The dicts of the model: every key is there or not.
Bind(k, values) == {EmptyDict} \cup { k :> v : v \in values }

ParamsDicts ==
  { [input_data |-> [wf_json |-> GPlain]],
    [wf_json |-> GPlain],
    [wf_json |-> GPlain, callbackUrl |-> CallbackBase],
    [input_data |-> [wf_json |-> GPlain], workflowName |-> WfTest] }

RawDicts ==
  { a @@ b @@ c @@ d @@ e @@ f @@ g @@ h :
      a \in Bind("taskId", {IdT1}),
      b \in Bind("id", {IdTest}),
      c \in Bind("workflowName", {WfFaceswap}),
      d \in Bind("workflow", {WfComfyBasic}),
      e \in Bind("params", ParamsDicts),
      f \in Bind("callbackUrl", {JobCallbackUrl}),
      g \in Bind("created_at", {<<"2026-01-01T00:00:00">>}),
      h \in Bind("priority", {<<"vip">>}) }

\* Two readings of the clock.
Now1 == <<"2026-01-02T00:00:00">>
Now2 == <<"2026-01-02T00:00:01">>

InitNormalise ==
  /\ consumer_mode = "redis_queue"
  /\ TASK_CALLBACK_URL = Empty
  /\ allowed_workflows = << <<"*">> >>
  /\ callbacks_ok = TRUE
  /\ task \in RawDicts
  /\ pc = "normalize"
  /\ jobs = 0
  /\ events = <<>>
  /\ requests = {}
  /\ processor = "none"
  /\ dispatch = ""
  /\ health = ""
  /\ outcome = NoOutcome
  /\ ret = -1
  /\ wf = GEmpty
  /\ client_cache = <<>>
  /\ lora_cache_loaded = FALSE
  /\ lora_cache = EmptyCache
  /\ ws_msg = NoMsg
  /\ gets = <<>>
  /\ download_results = <<>>
  /\ dl = BatchStart
  /\ engine_loras = EngineLoras
  /\ task_start_times = {}
  /\ recvs = 0
  /\ clock = 0
  /\ last_progress_time = 0
  /\ history_outputs = <<>>
  /\ upload_tasks = <<>>
  /\ output_urls = <<>>
  /\ callback_time = 0
  /\ fetch_result = ""
  /\ idle_ticks = 0
  /\ QueueIdle

\* _fetch_from_redis_queue line 63: the popped dict is normalised.
Normalise ==
  /\ pc = "normalize"
  /\ task' = normalize_queue_task_dict(task, Now1)
  /\ pc' = "normalized"
  /\ UNCHANGED queue_vars
  /\ UNCHANGED producer_vars
  /\ UNCHANGED loop_vars
  /\ UNCHANGED lora_vars
  /\ UNCHANGED wait_vars
  /\ UNCHANGED callback_vars
  /\ UNCHANGED harvest_vars
  /\ UNCHANGED << consumer_mode, TASK_CALLBACK_URL, allowed_workflows, jobs, events,
                  requests, processor, dispatch, health, outcome, ret, wf,
                  client_cache, lora_cache_loaded, task_start_times, recvs, clock,
                  last_progress_time >>

NextNormalise == Normalise

SpecNormalise == InitNormalise /\ [][NextNormalise]_vars

CanonicalFields ==
  {"taskId", "userId", "priority", "workflow", "workflowName", "params",
   "callbackUrl", "createdAt"}

====
